---- MODULE Spec2Model ----
(***************************************************************************)
(* Seasonal / weekly statistics loaders of the fantasy-football warehouse: *)
(*   src/src/utils/load_seasonal_stats.py  (load_seasonal_stats,           *)
(*        calculate_from_weekly_data, convert_to_db_records, safe_divide,  *)
(*        safe_float)                                                      *)
(*   src/src/utils/load_weekly_stats.py    (load_weekly_stats,             *)
(*        clean_weekly_data)                                               *)
(*   src/src/models/__init__.py            (NFLWeeklyStats,                *)
(*        NFLSeasonalStats)                                                *)
(***************************************************************************)
EXTENDS Integers, Sequences, FiniteSets, TLC

VARIABLES
    row,          \* the DataFrame row handed to convert_to_db_records (metric harness)
    result,       \* what the loop body of convert_to_db_records did with it
    seasonal,     \* table nfl_seasonal_stats: the committed rows
    weekly,       \* table nfl_weekly_stats: the committed rows
    pc,           \* where the running loader stands
    loader,       \* "seasonal" (load_seasonal_stats) or "weekly" (load_weekly_stats)
    seasons,      \* argument seasons: the list of requested seasons
    force_reload, \* argument force_reload
    use_api,      \* argument use_api (load_seasonal_stats)
    idx,          \* index in seasons of the season the for loop is at
    data,         \* the DataFrame fetched for that season
    records,      \* the records converted from it
    pending,      \* the session's uncommitted change
    trace,        \* history: what the current run did, in order
    start,        \* history: both tables as the current run found them
    repeated,     \* history: the current run has the arguments of the run before it
                  \* ("after_return" / "after_raise": how that run ended), or "no"
    reduced,      \* what calculate_from_weekly_data and convert_to_db_records gave (reducer harness)
    missing_years,\* load_remaining_years: the target years with no stored row
    jdx,          \* batched loaders: offset j in records of the batch being inserted
    prev,         \* history: a fetch or a batch failed in the run before the current one
    pbp,          \* table nfl_play_by_play: the committed rows
    pbp_start,    \* history: that table as the current run of load_pbp_data found it
    now,          \* SleeperClient: the clock time.time() reads, in seconds
    last_request_time, \* SleeperClient.last_request_time
    rate_limit,   \* SleeperClient.rate_limit, requests per minute
    cpc,          \* SleeperClient: how the last _make_request ended
    issued,       \* history: one entry per HTTP request, with the time it was issued at
    attempts,     \* history: HTTP attempts of the last _make_request
    response,     \* what the last _make_request returned
    sfn,          \* DataSyncService: the sync function running
    spc,          \* DataSyncService: where it stands
    payload,      \* the list of records the client returned to it
    pos,          \* index in payload of the record the for loop is at
    count,        \* its local count
    league_ids,   \* the local league_ids of sync_user_leagues
    added,        \* the session's pending db.add()s
    stored,       \* the committed rows of the tables leagues, rosters and matchups
    sresult,      \* what it returned, or the exception it raised
    args,         \* the arguments league_id and week of the running sync function
    log,          \* history: what the for loop did with each record so far
    runs,         \* history: the arguments and payload of each sync call made
    hfn,          \* utils/helpers.py: the helper function under call (helper harness)
    hin,          \* its arguments
    hout          \* what it returned or raised

helperVars == <<hfn, hin, hout>>
metricVars == <<row, result, reduced, helperVars>>
loaderVars == <<seasonal, weekly, pc, loader, seasons, force_reload, use_api, idx,
                data, records, pending, trace, start, repeated>>
pbpVars == <<pbp, pbp_start>>
batchVars == <<missing_years, jdx, prev, pbpVars>>
clientVars == <<now, last_request_time, rate_limit, cpc, issued, attempts, response>>
syncVars == <<sfn, spc, payload, pos, count, league_ids, added, stored, sresult, args, log,
              runs>>
serviceVars == <<clientVars, syncVars>>
otherVars == <<batchVars, serviceVars>>
vars == <<hfn, hin, hout, row, result, reduced, seasonal, weekly, pc, loader, seasons, force_reload,
          use_api, idx, data, records, pending, trace, start, repeated, otherVars>>

(***************************************************************************)
(* Values of a DataFrame cell.  A number is the exact rational n/d (d > 0, *)
(* lowest terms); pandas' NaN and Python's None are values of their own;   *)
(* an exception is the value of the expression that raised it.            *)
(***************************************************************************)
MaxStat == 3

Val(kind, n, d) == [k |-> kind, n |-> n, d |-> d]
NaN == Val("nan", 0, 1)
None == Val("none", 0, 1)
Unset == Val("unset", 0, 1)
TypeError == Val("TypeError", 0, 1)
ValueError == Val("ValueError", 0, 1)
ZeroDivisionError == Val("ZeroDivisionError", 0, 1)
AttributeError == Val("AttributeError", 0, 1)

Exceptions == {"TypeError", "ValueError", "ZeroDivisionError", "AttributeError"}
IsRaise(v) == v.k \in Exceptions
IsNum(v) == v.k = "num"

Abs(i) == IF i < 0 THEN -i ELSE i

RECURSIVE GCD(_, _)
GCD(a, b) == IF b = 0 THEN a ELSE GCD(b, a % b)

\* the rational n/d, d # 0, in lowest terms with a positive denominator
Rat(n, d) ==
    LET g == GCD(Abs(n), Abs(d))
        s == IF d < 0 THEN -1 ELSE 1
    IN Val("num", (s * n) \div g, (s * d) \div g)

Num(i) == Val("num", i, 1)

\* Python's  x == 0
EqZero(v) == IsNum(v) /\ v.n = 0

\* Python's  a / b  on floats, NaN and None
TrueDiv(a, b) ==
    IF a.k = "none" \/ b.k = "none" THEN TypeError
    ELSE IF a.k = "nan" \/ b.k = "nan" THEN NaN
    ELSE IF b.n = 0 THEN ZeroDivisionError
    ELSE Rat(a.n * b.d, a.d * b.n)

\* Python's  a * 100
Times100(a) ==
    IF IsRaise(a) THEN a
    ELSE IF a.k = "none" THEN TypeError
    ELSE IF a.k = "nan" THEN NaN
    ELSE Rat(a.n * 100, a.d)

\* Python's  max(a, 1): a unless 1 > a
MaxWithOne(a) ==
    IF a.k = "none" THEN TypeError
    ELSE IF a.k = "nan" THEN NaN
    ELSE IF a.d > a.n THEN Num(1) ELSE a

\* Python's  int(a)
ToInt(a) ==
    IF a.k = "none" THEN TypeError
    ELSE IF a.k = "nan" THEN ValueError
    ELSE Num(IF a.n < 0 THEN -((-a.n) \div a.d) ELSE a.n \div a.d)

\* Series.get(key, default)
Get(r, key, default) == IF key \in DOMAIN r THEN r[key] ELSE default

safe_divide_NoZeroCheck(numerator, denominator) ==
    IF denominator.k = "none" THEN Num(0) ELSE TrueDiv(numerator, denominator)

safe_divide(numerator, denominator) ==
    IF EqZero(denominator) \/ denominator.k = "none" THEN Num(0)
    ELSE TrueDiv(numerator, denominator)

safe_float(value) ==
    IF value.k \in {"nan", "none"} THEN None ELSE value

games_played_floor_NoFloor(r) == Get(r, "games_played", Num(1))

\* max(row.get('games_played', 1), 1)
games_played_floor(r) == MaxWithOne(Get(r, "games_played", Num(1)))

PerGame(total, games) == IF IsRaise(games) THEN Unset ELSE safe_divide(total, games)

yards_per_completion_ByAttempts(r) ==
    safe_divide(Get(r, "passing_yards", Num(0)), Get(r, "attempts", Num(0)))

yards_per_completion(r) ==
    safe_divide(Get(r, "passing_yards", Num(0)), Get(r, "completions", Num(0)))

\* the statements of the loop body of convert_to_db_records, in program order
Steps == <<"completion_pct", "yards_per_attempt", "yards_per_completion",
           "yards_per_carry", "catch_pct", "yards_per_target",
           "yards_per_reception", "games_played", "fantasy_ppg",
           "fantasy_ppr_ppg", "record">>

\* the value statement s computes on row r (an exception when it raises)
Eval(r, s) ==
    CASE s = "completion_pct" ->
           Times100(safe_divide(Get(r, "completions", Num(0)), Get(r, "attempts", Num(0))))
      [] s = "yards_per_attempt" ->
           safe_divide(Get(r, "passing_yards", Num(0)), Get(r, "attempts", Num(0)))
      [] s = "yards_per_completion" -> yards_per_completion(r)
      [] s = "yards_per_carry" ->
           safe_divide(Get(r, "rushing_yards", Num(0)), Get(r, "carries", Num(0)))
      [] s = "catch_pct" ->
           Times100(safe_divide(Get(r, "receptions", Num(0)), Get(r, "targets", Num(0))))
      [] s = "yards_per_target" ->
           safe_divide(Get(r, "receiving_yards", Num(0)), Get(r, "targets", Num(0)))
      [] s = "yards_per_reception" ->
           safe_divide(Get(r, "receiving_yards", Num(0)), Get(r, "receptions", Num(0)))
      [] s = "games_played" -> games_played_floor(r)
      [] s = "fantasy_ppg" ->
           PerGame(Get(r, "fantasy_points", Num(0)), games_played_floor(r))
      [] s = "fantasy_ppr_ppg" ->
           PerGame(Get(r, "fantasy_points_ppr", Num(0)), games_played_floor(r))
      [] s = "record" -> ToInt(Get(r, "games_played", Num(0)))

\* the first statement that raises on row r (0: none does)
RaisedAt(r) ==
    LET bad == {i \in 1..Len(Steps) : IsRaise(Eval(r, Steps[i]))}
    IN IF bad = {} THEN 0 ELSE CHOOSE i \in bad : \A j \in bad : i <= j

\* one pass of the loop body on row r: the locals as the pass leaves them and the
\* exception it ended with, if any
ConvertRow(r) ==
    LET at == RaisedAt(r)
    IN [raised |-> IF at = 0 THEN "none" ELSE Eval(r, Steps[at]).k,
        at |-> IF at = 0 THEN "none" ELSE Steps[at],
        locals |-> [i \in 1..Len(Steps) |->
                      IF at = 0 \/ i < at THEN Eval(r, Steps[i]) ELSE Unset]]

Local(res, s) == res.locals[CHOOSE i \in 1..Len(Steps) : Steps[i] = s]

(***************************************************************************)
(* Rows the metric harness converts.  One group of columns at a time takes *)
(* every combination of absent / None / NaN / number; the other columns    *)
(* keep the values of BaseRow.                                             *)
(***************************************************************************)
Absent == Val("absent", 0, 1)

CountCols == {"completions", "attempts", "carries", "targets", "receptions",
              "games_played"}
YardCols == {"passing_yards", "rushing_yards", "receiving_yards",
             "fantasy_points", "fantasy_points_ppr"}

BaseRow == [c \in CountCols \cup YardCols |->
              IF c \in {"attempts", "targets"} THEN Num(3) ELSE Num(2)]

ColumnGroups == {{"completions", "attempts", "passing_yards"},
                 {"carries", "rushing_yards"},
                 {"targets", "receptions", "receiving_yards"},
                 {"games_played", "fantasy_points", "fantasy_points_ppr"}}

CellsOf(c) == {Absent, None, NaN}
              \cup {Num(i) : i \in (IF c \in YardCols THEN -1 ELSE 0)..MaxStat}

AllCells == UNION {CellsOf(c) : c \in CountCols \cup YardCols}

RowWith(f) == [c \in {x \in DOMAIN BaseRow : x \notin DOMAIN f \/ f[x] # Absent} |->
                 IF c \in DOMAIN f THEN f[c] ELSE BaseRow[c]]

GroupRows(G) == {RowWith(f) : f \in {g \in [G -> AllCells] : \A c \in G : g[c] \in CellsOf(c)}}

\* the end-to-end scenario of the specification's testable properties
ScenarioRow == [c \in {"completions", "attempts", "passing_yards", "games_played",
                       "fantasy_points", "fantasy_points_ppr"} |->
                  CASE c = "completions" -> Num(20)
                    [] c = "attempts" -> Num(30)
                    [] c = "passing_yards" -> Num(250)
                    [] c = "games_played" -> Num(5)
                    [] c = "fantasy_points" -> Num(100)
                    [] c = "fantasy_points_ppr" -> Num(120)]

SampleRows == UNION {GroupRows(G) : G \in ColumnGroups} \cup {ScenarioRow}

NotRun == [raised |-> "notrun", at |-> "none", locals |-> [i \in 1..Len(Steps) |-> Unset]]

NoChange == [op |-> "none", seasons |-> {}, rows |-> {}]

\* SleeperClient.__init__ with the default rate limit; no request made yet
ClientIdle ==
    /\ now = 0
    /\ last_request_time = 0
    /\ rate_limit = 60
    /\ cpc = "idle"
    /\ issued = <<>>
    /\ attempts = 0
    /\ response = "none"

NoResult == [kind |-> "none", count |-> 0, league_ids |-> <<>>]

\* no sync function of DataSyncService has run
SyncIdle ==
    /\ sfn = "none"
    /\ spc = "idle"
    /\ payload = <<>>
    /\ pos = 1
    /\ count = 0
    /\ added = {}
    /\ stored = {}
    /\ sresult = NoResult
    /\ league_ids = <<>>
    /\ args = [league_id |-> "none", week |-> 0]
    /\ log = <<>>
    /\ runs = <<>>

ServiceIdle == ClientIdle /\ SyncIdle

NotCalled == [k |-> "notcalled", v |-> 0]

\* no helper of utils/helpers.py is under call
HelpersIdle ==
    /\ hfn = "none"
    /\ hin = <<>>
    /\ hout = NotCalled

\* the batched loaders have not run
BatchIdle ==
    /\ missing_years = <<>>
    /\ jdx = 0
    /\ prev = FALSE
    /\ pbp = {}
    /\ pbp_start = {}

OthersIdle == BatchIdle /\ ServiceIdle /\ HelpersIdle

\* no loader has run and none is running
LoaderIdle ==
    /\ pc = "idle"
    /\ loader = "seasonal"
    /\ seasons = <<>>
    /\ force_reload = FALSE
    /\ use_api = TRUE
    /\ idx = 1
    /\ data = <<>>
    /\ records = <<>>
    /\ pending = NoChange
    /\ trace = <<>>
    /\ repeated = "no"

NotReduced == [season |-> 0, raised |-> "notrun", records |-> <<>>]

InitMetrics ==
    /\ row \in SampleRows
    /\ result = NotRun
    /\ reduced = NotReduced
    /\ seasonal = {}
    /\ weekly = {}
    /\ start = [seasonal |-> {}, weekly |-> {}]
    /\ LoaderIdle
    /\ OthersIdle

\* one pass of the loop body of convert_to_db_records over the row
ConvertToDbRecords ==
    /\ result = NotRun
    /\ result' = ConvertRow(row)
    /\ UNCHANGED <<row, reduced, helperVars, loaderVars, otherVars>>

NextMetrics == ConvertToDbRecords

SpecMetrics == InitMetrics /\ [][NextMetrics]_vars

(***************************************************************************)
(* The two tables and what the upstream provider can return.               *)
(***************************************************************************)
MaxBatch == 2

AllSeasons == {2023, 2024}
Players == {"p1", "p2"}

\* the columns (mapped attributes) of the two ORM classes
NFLWeeklyStatsColumns ==
    {"player_id", "season", "week", "player_name", "player_display_name", "position",
     "position_group", "recent_team", "headshot_url", "opponent_team", "season_type",
     "completions", "attempts", "passing_yards", "carries", "rushing_yards", "targets",
     "receptions", "receiving_yards", "special_teams_tds", "fantasy_points",
     "fantasy_points_ppr", "target_share", "air_yards_share", "wopr", "pacr", "racr",
     "dakota", "created_at", "updated_at"}

NFLSeasonalStatsColumns ==
    {"player_id", "season", "player_name", "player_display_name", "position",
     "position_group", "team", "games_played", "season_type",
     "completions", "attempts", "passing_yards", "carries", "rushing_yards", "targets",
     "receptions", "receiving_yards", "special_teams_tds", "fantasy_points",
     "fantasy_points_ppr", "target_share", "air_yards_share", "wopr",
     "completion_percentage", "yards_per_attempt", "yards_per_completion",
     "yards_per_carry", "catch_percentage", "yards_per_target", "yards_per_reception",
     "fantasy_points_per_game", "fantasy_points_ppr_per_game", "created_at",
     "updated_at"}

\* the keyword arguments load_weekly_stats gives the NFLWeeklyStats constructor
WeeklyRecordKwargs ==
    {"player_id", "season", "week", "player_name", "player_display_name", "position",
     "position_group", "team", "opponent_team", "season_type",
     "completions", "attempts", "passing_yards", "carries", "rushing_yards", "targets",
     "receptions", "receiving_yards", "special_teams_tds", "fantasy_points",
     "fantasy_points_ppr", "target_share", "air_yards_share", "wopr"}

\* the keyword arguments convert_to_db_records gives the NFLSeasonalStats constructor
SeasonalRecordKwargs ==
    {"player_id", "season", "player_name", "player_display_name", "position",
     "position_group", "team", "games_played", "season_type",
     "completions", "attempts", "passing_yards", "carries", "rushing_yards", "targets",
     "receptions", "receiving_yards", "special_teams_tds", "fantasy_points",
     "fantasy_points_ppr", "target_share", "air_yards_share", "wopr",
     "completion_percentage", "yards_per_attempt", "yards_per_completion",
     "yards_per_carry", "catch_percentage", "yards_per_target", "yards_per_reception",
     "fantasy_points_per_game", "fantasy_points_ppr_per_game"}

\* the attributes of NFLWeeklyStats the query of calculate_from_weekly_data reads
WeeklyQueryAttributes ==
    {"player_id", "player_name", "player_display_name", "position", "position_group",
     "team", "week", "season",
     "completions", "attempts", "passing_yards", "carries", "rushing_yards", "targets",
     "receptions", "receiving_yards", "special_teams_tds", "fantasy_points",
     "fantasy_points_ppr", "target_share", "air_yards_share", "wopr"}

\* the declarative constructor: a keyword that is no attribute of the class is a TypeError
ConstructorAccepts(columns, kwargs) == kwargs \subseteq columns

\* a row of nfl_seasonal_stats as convert_to_db_records builds it from DataFrame row r
\* (the passing and fantasy columns; the rushing and receiving columns are filled the
\* same way from safe_float and the locals of the pass)
NFLSeasonalStats(r, season) ==
    [player_id |-> r.player_id,
     season |-> season,
     created |-> "during",
     team |-> Get(r, "team", Get(r, "recent_team", "")),
     games_played |-> ToInt(Get(r.stats, "games_played", Num(0))),
     target_share |-> safe_float(Get(r.stats, "target_share", None)),
     air_yards_share |-> safe_float(Get(r.stats, "air_yards_share", None)),
     wopr |-> safe_float(Get(r.stats, "wopr", None)),
     attempts |-> safe_float(Get(r.stats, "attempts", None)),
     passing_yards |-> safe_float(Get(r.stats, "passing_yards", None)),
     completion_percentage |-> Eval(r.stats, "completion_pct"),
     yards_per_attempt |-> Eval(r.stats, "yards_per_attempt"),
     fantasy_points_per_game |-> Eval(r.stats, "fantasy_ppg")]

\* convert_to_db_records(df, season): the records, or the exception of the first row
\* whose pass raises
convert_to_db_records(df, season) ==
    LET bad == {i \in 1..Len(df) : ConvertRow(df[i].stats).raised # "none"}
    IN IF bad # {}
       THEN [raised |-> ConvertRow(df[CHOOSE i \in bad : \A j \in bad : i <= j].stats).raised,
             records |-> <<>>]
       ELSE IF ~ConstructorAccepts(NFLSeasonalStatsColumns, SeasonalRecordKwargs)
       THEN [raised |-> "TypeError", records |-> <<>>]
       ELSE [raised |-> "none",
             records |-> [i \in 1..Len(df) |-> NFLSeasonalStats(df[i], season)]]

\* DataFrame.fillna(0) on the statistics of one row
FillNa(stats) == [c \in DOMAIN stats |-> IF stats[c].k \in {"nan", "none"} THEN Num(0) ELSE stats[c]]

RECURSIVE SelectSeq2(_, _)
SelectSeq2(sq, keep) ==
    IF sq = <<>> THEN <<>>
    ELSE IF sq[1].player_id \in keep
         THEN <<sq[1]>> \o SelectSeq2(Tail(sq), keep)
         ELSE SelectSeq2(Tail(sq), keep)

\* clean_weekly_data(df): fillna(0), then the rows without a player_id are dropped
clean_weekly_data(df) ==
    LET filled == [i \in 1..Len(df) |-> [df[i] EXCEPT !.stats = FillNa(@)]]
    IN SelectSeq2(filled, {r.player_id : r \in {filled[i] : i \in 1..Len(filled)}} \ {""})

\* a row of nfl_weekly_stats as load_weekly_stats would build it from DataFrame row r
NFLWeeklyStats(r, season) ==
    [player_id |-> r.player_id,
     season |-> season,
     week |-> r.week,
     ident |-> r.ident,
     recent_team |-> "",
     created |-> "during",
     stats |-> [c \in DOMAIN r.stats |-> safe_float(r.stats[c])]]

\* the record-building loop of load_weekly_stats over the cleaned DataFrame
WeeklyRecords(df, season) ==
    LET cleaned == clean_weekly_data(df)
    IN IF cleaned = <<>> THEN [raised |-> "none", records |-> <<>>]
       ELSE IF ~ConstructorAccepts(NFLWeeklyStatsColumns, WeeklyRecordKwargs)
       THEN [raised |-> "TypeError", records |-> <<>>]
       ELSE [raised |-> "none",
             records |-> [i \in 1..Len(cleaned) |-> NFLWeeklyStats(cleaned[i], season)]]

(***************************************************************************)
(* calculate_from_weekly_data: the GROUP BY query over nfl_weekly_stats.   *)
(***************************************************************************)
\* the summed columns the model follows (the rushing and receiving columns are summed
\* the same way)
WeeklyStatCols == {"completions", "attempts", "passing_yards", "fantasy_points",
                   "fantasy_points_ppr"}

AddVal(a, b) == Rat(a.n * b.d + b.n * a.d, a.d * b.d)

RECURSIVE SumVals(_)
SumVals(sq) == IF sq = <<>> THEN Num(0) ELSE AddVal(sq[1], SumVals(Tail(sq)))

RECURSIVE SetToSeq(_)
SetToSeq(S) == IF S = {} THEN <<>>
               ELSE LET x == CHOOSE y \in S : TRUE IN <<x>> \o SetToSeq(S \ {x})

\* the non-NULL values of column c in the rows of one group
NonNull(rows, c) ==
    LET sq == SetToSeq(rows)
    IN SelectSeq([i \in 1..Len(sq) |-> sq[i].stats[c]], LAMBDA v : v.k = "num")

\* SQL SUM and AVG: NULL over no non-NULL value
SqlSum(rows, c) == IF NonNull(rows, c) = <<>> THEN None ELSE SumVals(NonNull(rows, c))
SqlAvg(rows, c) ==
    IF NonNull(rows, c) = <<>> THEN None
    ELSE LET t == SumVals(NonNull(rows, c)) IN Rat(t.n, t.d * Len(NonNull(rows, c)))

\* the per-week ratios the query averages
ShareCols == {"target_share", "air_yards_share", "wopr"}

\* team codes in the order string comparison gives them
TeamCodes == <<"BUF", "KC", "SF">>

TeamRank(t) == CHOOSE i \in 1..Len(TeamCodes) : TeamCodes[i] = t

\* SQL MAX over the team codes of one group
SqlMax(codes) == CHOOSE t \in codes : \A u \in codes : TeamRank(u) <= TeamRank(t)

\* Python's  x or 0
OrZero(v) == IF v.k = "none" \/ EqZero(v) THEN Num(0) ELSE v

\* the GROUP BY key of the query
GroupKey(r) == <<r.player_id, r.ident>>

\* the DataFrame row built from the result row of one group
GroupRow(rows) ==
    LET any == CHOOSE r \in rows : TRUE
    IN [player_id |-> any.player_id,
        ident |-> any.ident,
        team |-> SqlMax({r.recent_team : r \in rows}),
        stats |-> [c \in WeeklyStatCols \cup {"games_played"} \cup ShareCols |->
                     IF c = "games_played" THEN Num(Cardinality(rows))
                     ELSE IF c \in ShareCols THEN SqlAvg(rows, c)
                     ELSE OrZero(SqlSum(rows, c))]]

\* calculate_from_weekly_data(session, season): building the query reads
\* NFLWeeklyStats.team, an AttributeError when the class has no such attribute
calculate_from_weekly_data(w, season) ==
    IF ~(WeeklyQueryAttributes \subseteq NFLWeeklyStatsColumns)
    THEN [raised |-> "AttributeError", df |-> <<>>]
    ELSE LET rows == {r \in w : r.season = season}
             keys == {GroupKey(r) : r \in rows}
         IN [raised |-> "none",
             df |-> SetToSeq({GroupRow({r \in rows : GroupKey(r) = k}) : k \in keys})]

(***************************************************************************)
(* What the tables hold before the first run and what upstream returns.    *)
(***************************************************************************)
\* the DataFrame rows nfl.import_seasonal_data can return for one season
SeasonalApiRows ==
    {[player_id |-> p, stats |-> BaseRow] : p \in Players}
    \cup {[player_id |-> "p2", stats |-> [BaseRow EXCEPT !["games_played"] = NaN]]}

Ident(name) == [player_name |-> name, player_display_name |-> name,
                position |-> "QB", position_group |-> "QB"]

WeekStats(att, yds) ==
    [c \in WeeklyStatCols \cup {"target_share", "air_yards_share", "wopr"} |->
        IF c = "attempts" THEN att ELSE IF c = "passing_yards" THEN yds ELSE None]

\* the DataFrame rows nfl.import_weekly_data can return for one season
WeeklyApiRows ==
    {[player_id |-> p, week |-> 1, ident |-> Ident("A"), stats |-> WeekStats(Num(3), NaN)] :
        p \in Players \cup {""}}

DataFrames(pool) == UNION {[1..n -> pool] : n \in 0..MaxBatch}

WeeklyRow(p, s, w, name, att, yds) ==
    [player_id |-> p, season |-> s, week |-> w, ident |-> Ident(name),
     recent_team |-> "KC", created |-> "before", stats |-> WeekStats(att, yds)]

\* three weeks of one player (the specification's reduction example) and two weeks of
\* another whose rows disagree on the name
WeeklyExample ==
    {WeeklyRow("p1", 2023, 1, "A", Num(10), Num(100)),
     WeeklyRow("p1", 2023, 2, "A", Num(15), Num(150)),
     WeeklyRow("p1", 2023, 3, "A", Num(0), Num(0)),
     WeeklyRow("p2", 2024, 1, "B", Num(3), None),
     WeeklyRow("p2", 2024, 2, "B.", Num(2), Num(2))}

InitialWeekly == {{}, {r \in WeeklyExample : r.season = 2023}, WeeklyExample}

InitialSeasonal ==
    SUBSET {[NFLSeasonalStats([player_id |-> p, stats |-> BaseRow], s)
               EXCEPT !.created = "before"] : p \in Players, s \in AllSeasons}

SeasonLists ==
    {ss \in UNION {[1..n -> AllSeasons] : n \in 0..Cardinality(AllSeasons)} :
        \A i, j \in 1..Len(ss) : ss[i] = ss[j] => i = j}

(***************************************************************************)
(* load_seasonal_stats and load_weekly_stats.                              *)
(***************************************************************************)
Table == IF loader = "seasonal" THEN seasonal ELSE weekly

RowsOf(t, s) == {r \in t : r.season = s}

\* the primary key of a row of the running loader's table
Key(r) == IF loader = "seasonal" THEN <<r.player_id, r.season>>
          ELSE <<r.player_id, r.season, r.week>>

Season == seasons[idx]

\* n: the number of rows of the DataFrame, for a fetch
Event(ev, s, n) == [ev |-> ev, season |-> s, n |-> n]

\* created_at relative to the start of a run: every stored row predates the next run
Aged(t) == {[r EXCEPT !.created = "before"] : r \in t}

SetTable(t) ==
    /\ seasonal' = IF loader = "seasonal" THEN t ELSE seasonal
    /\ weekly' = IF loader = "weekly" THEN t ELSE weekly

\* a loader that never deletes
FirstStep_NoDelete(f) == "loop"

\* if force_reload: the delete comes before the loop
FirstStep(f) == IF f THEN "delete" ELSE "loop"

\* a call of load_seasonal_stats(ss, f, api) or load_weekly_stats(ss, f) begins; the
\* two loaders are scripts of their own, and a behaviour follows the calls of one
StartLoad(l, ss, f, api) ==
    /\ pc \in {"idle", "done", "raised"}
    /\ l = loader
    /\ l = "weekly" => api
    /\ loader' = l
    /\ seasons' = ss
    /\ force_reload' = f
    /\ use_api' = api
    /\ repeated' = IF pc # "idle" /\ ss = seasons /\ f = force_reload /\ api = use_api
                    THEN (IF pc = "done" THEN "after_return" ELSE "after_raise")
                    ELSE "no"
    /\ seasonal' = Aged(seasonal)
    /\ weekly' = Aged(weekly)
    /\ start' = [seasonal |-> Aged(seasonal), weekly |-> Aged(weekly)]
    /\ idx' = 1
    /\ data' = <<>>
    /\ records' = <<>>
    /\ pending' = NoChange
    /\ trace' = <<>>
    /\ pc' = FirstStep(f)
    /\ UNCHANGED <<metricVars, otherVars>>

\* the outer  except Exception: session.rollback(); raise  and the  finally
Propagate(ev) ==
    /\ pc' = "raised"
    /\ pending' = NoChange
    /\ trace' = Append(trace, Event(ev, 0, 0))
    /\ UNCHANGED <<metricVars, otherVars, seasonal, weekly, loader, seasons, force_reload, use_api,
                   idx, data, records, start, repeated>>

DeleteFilter_All(ss) == AllSeasons

\* filter(NFLSeasonalStats.season.in_(seasons)): the seasons the delete reaches
DeleteFilter(ss) == {ss[i] : i \in 1..Len(ss)}

\* session.query(...).filter(season.in_(seasons)).delete(synchronize_session=False)
DeleteExisting ==
    /\ pc = "delete"
    /\ \/ /\ pending' = [op |-> "delete", seasons |-> DeleteFilter(seasons), rows |-> {}]
          /\ trace' = Append(trace, Event("delete", 0, 0))
          /\ pc' = "commit_delete"
          /\ UNCHANGED <<metricVars, otherVars, seasonal, weekly, loader, seasons, force_reload,
                         use_api, idx, data, records, start, repeated>>
       \/ Propagate("delete_failed")

\* session.commit() of the delete
CommitDelete ==
    /\ pc = "commit_delete"
    /\ \/ /\ SetTable({r \in Table : r.season \notin pending.seasons})
          /\ pending' = NoChange
          /\ trace' = Append(trace, Event("commit_delete", 0, 0))
          /\ pc' = "loop"
          /\ UNCHANGED <<metricVars, otherVars, loader, seasons, force_reload, use_api, idx, data,
                         records, start, repeated>>
       \/ Propagate("commit_delete_failed")

\* the body of the for loop leaves the current season: continue
NextSeason(ev) ==
    /\ idx' = idx + 1
    /\ pc' = "loop"
    /\ data' = <<>>
    /\ records' = <<>>
    /\ pending' = NoChange
    /\ trace' = Append(trace, Event(ev, Season, 0))

\* a loop body without the inner handler: the error reaches the outer one
SeasonFailed_Raises(ev) ==
    /\ pc' = "raised"
    /\ pending' = NoChange
    /\ trace' = Append(trace, Event(ev, Season, 0))
    /\ UNCHANGED <<metricVars, otherVars, seasonal, weekly, loader, seasons, force_reload,
                   use_api, idx, data, records, start, repeated>>

\* the inner  except Exception: session.rollback(); continue
SeasonFailed(ev) ==
    /\ NextSeason(ev)
    /\ UNCHANGED <<metricVars, otherVars, seasonal, weekly, loader, seasons, force_reload, use_api,
                   start, repeated>>

ShouldSkip_Never(existing_count, f) == FALSE

ShouldSkip_OnlyFull(existing_count, f) == existing_count > 1 /\ ~f

\* if existing_count > 0 and not force_reload: continue
ShouldSkip(existing_count, f) == existing_count > 0 /\ ~f

\* existing_count = session.query(...).filter(season == season).count() and the skip
CountExisting ==
    /\ pc = "loop"
    /\ idx <= Len(seasons)
    /\ \/ /\ ShouldSkip(Cardinality(RowsOf(Table, Season)), force_reload)
          /\ NextSeason("skip")
          /\ UNCHANGED <<metricVars, otherVars, seasonal, weekly, loader, seasons, force_reload,
                         use_api, start, repeated>>
       \/ /\ ~ShouldSkip(Cardinality(RowsOf(Table, Season)), force_reload)
          /\ pc' = "fetch"
          /\ UNCHANGED <<metricVars, otherVars, seasonal, weekly, loader, seasons, force_reload,
                         use_api, idx, data, records, pending, trace, start, repeated>>
       \/ Propagate("count_failed")

\* the DataFrame is in hand: .empty ends the season, otherwise it is converted
Fetched(df) ==
    IF df = <<>>
    THEN /\ NextSeason("empty")
         /\ UNCHANGED <<metricVars, otherVars, seasonal, weekly, loader, seasons, force_reload,
                        use_api, start, repeated>>
    ELSE /\ data' = df
         /\ pc' = "convert"
         /\ trace' = Append(trace, Event("fetch", Season, Len(df)))
         /\ UNCHANGED <<metricVars, otherVars, seasonal, weekly, loader, seasons, force_reload,
                        use_api, idx, records, pending, start, repeated>>

\* load_from_api(season) / nfl.import_weekly_data([season]): upstream answers or raises
FetchFromApi ==
    /\ pc = "fetch"
    /\ loader = "weekly" \/ use_api
    /\ \/ \E df \in DataFrames(IF loader = "seasonal" THEN SeasonalApiRows
                               ELSE WeeklyApiRows) : Fetched(df)
       \/ SeasonFailed("fetch_failed")

\* seasonal_data = calculate_from_weekly_data(session, season)
FetchFromWeekly ==
    /\ pc = "fetch"
    /\ loader = "seasonal" /\ ~use_api
    /\ LET got == calculate_from_weekly_data(weekly, Season)
       IN IF got.raised # "none" THEN SeasonFailed("calculate_failed") ELSE Fetched(got.df)

\* records = convert_to_db_records(seasonal_data, season) / the record loop of
\* load_weekly_stats after clean_weekly_data
Convert ==
    /\ pc = "convert"
    /\ LET got == IF loader = "seasonal" THEN convert_to_db_records(data, Season)
                  ELSE WeeklyRecords(data, Season)
       IN IF got.raised # "none" THEN SeasonFailed("convert_failed")
          ELSE IF got.records = <<>>
          THEN /\ NextSeason("no_records")
               /\ UNCHANGED <<metricVars, otherVars, seasonal, weekly, loader, seasons,
                              force_reload, use_api, start, repeated>>
          ELSE /\ records' = got.records
               /\ pc' = "insert"
               /\ UNCHANGED <<metricVars, otherVars, seasonal, weekly, loader, seasons,
                              force_reload, use_api, idx, data, pending, trace, start,
                              repeated>>

\* two records of the batch, or a record and a stored row, have the same primary key
\* a table without its primary key
PrimaryKeyConflict_Never(recs, t) == FALSE

PrimaryKeyConflict(recs, t) ==
    \/ \E i, j \in 1..Len(recs) : i # j /\ Key(recs[i]) = Key(recs[j])
    \/ \E i \in 1..Len(recs) : \E r \in t : Key(recs[i]) = Key(r)

\* session.bulk_save_objects(records)
BulkSaveObjects ==
    /\ pc = "insert"
    /\ \/ /\ ~PrimaryKeyConflict(records, Table)
          /\ pending' = [op |-> "insert", seasons |-> {},
                         rows |-> {records[i] : i \in 1..Len(records)}]
          /\ trace' = Append(trace, Event("insert", Season, 0))
          /\ pc' = "commit"
          /\ UNCHANGED <<metricVars, otherVars, seasonal, weekly, loader, seasons, force_reload,
                         use_api, idx, data, records, start, repeated>>
       \/ SeasonFailed("insert_failed")

\* session.commit() of the inserted records
CommitInsert ==
    /\ pc = "commit"
    /\ \/ /\ SetTable(Table \cup pending.rows)
          /\ NextSeason("commit")
          /\ UNCHANGED <<metricVars, otherVars, loader, seasons, force_reload, use_api, start,
                         repeated>>
       \/ SeasonFailed("commit_failed")

\* the loop is over: session.close() and the function returns
FinishLoad ==
    /\ pc = "loop"
    /\ idx > Len(seasons)
    /\ pc' = "done"
    /\ UNCHANGED <<metricVars, otherVars, seasonal, weekly, loader, seasons, force_reload, use_api,
                   idx, data, records, pending, trace, start, repeated>>

\* the tables as one loader finds them before its first call
Init ==
    /\ row = ScenarioRow
    /\ result = NotRun
    /\ reduced = NotReduced
    /\ \/ loader = "seasonal" /\ seasonal \in InitialSeasonal /\ weekly = WeeklyExample
       \/ loader = "weekly" /\ seasonal = {} /\ weekly \in InitialWeekly
    /\ start = [seasonal |-> seasonal, weekly |-> weekly]
    /\ pc = "idle"
    /\ seasons = <<>>
    /\ force_reload = FALSE
    /\ use_api = TRUE
    /\ idx = 1
    /\ data = <<>>
    /\ records = <<>>
    /\ pending = NoChange
    /\ trace = <<>>
    /\ repeated = "no"
    /\ OthersIdle

Next ==
    \/ \E l \in {"seasonal", "weekly"}, ss \in SeasonLists, f \in BOOLEAN, api \in BOOLEAN :
          StartLoad(l, ss, f, api)
    \/ DeleteExisting
    \/ CommitDelete
    \/ CountExisting
    \/ FetchFromApi
    \/ FetchFromWeekly
    \/ Convert
    \/ BulkSaveObjects
    \/ CommitInsert
    \/ FinishLoad

Spec == Init /\ [][Next]_vars

(***************************************************************************)
(* Reducer harness: calculate_from_weekly_data followed by                 *)
(* convert_to_db_records over the weekly rows of one season.               *)
(***************************************************************************)
\* the weekly row r with another team code and with value v in the averaged columns
Shares(r, t, v) ==
    [r EXCEPT !.recent_team = t,
              !.stats = [c \in DOMAIN r.stats |-> IF c \in ShareCols THEN v ELSE r.stats[c]]]

\* weekly rows to reduce: the specification's example (p1), a player whose rows disagree
\* on the name (p2, weeks 1 and 2) and a row with NULL statistics
ReducePool ==
    WeeklyExample
    \cup {Shares(WeeklyRow("p2", 2023, 1, "B", Num(2), Num(3)), "KC", Rat(1, 2)),
          Shares(WeeklyRow("p2", 2023, 2, "B.", Num(1), Num(-1)), "SF", Rat(1, 4)),
          Shares(WeeklyRow("p2", 2023, 3, "B", None, None), "BUF", None)}

InitReduce ==
    /\ row = ScenarioRow
    /\ result = NotRun
    /\ reduced = NotReduced
    /\ seasonal = {}
    /\ weekly \in SUBSET ReducePool
    /\ start = [seasonal |-> {}, weekly |-> weekly]
    /\ LoaderIdle
    /\ OthersIdle

\* seasonal_data = calculate_from_weekly_data(session, season);
\* records = convert_to_db_records(seasonal_data, season)   (when the data is not empty)
ReduceSeason(s) ==
    /\ reduced = NotReduced
    /\ LET got == calculate_from_weekly_data(weekly, s)
           conv == convert_to_db_records(got.df, s)
       IN reduced' = IF got.raised # "none"
                     THEN [season |-> s, raised |-> got.raised, records |-> <<>>]
                     ELSE [season |-> s, raised |-> conv.raised, records |-> conv.records]
    /\ UNCHANGED <<row, result, helperVars, loaderVars, otherVars>>

NextReduce == \E s \in AllSeasons : ReduceSeason(s)

SpecReduce == InitReduce /\ [][NextReduce]_vars

(***************************************************************************)
(* Claims about the derived metrics (checked under SpecMetrics).           *)
(***************************************************************************)
StepIndex(s) == CHOOSE i \in 1..Len(Steps) : Steps[i] = s

\* the pass over the row ended in an exception before it reached statement s
RaisedBefore(res, s) == res.at # "none" /\ StepIndex(res.at) < StepIndex(s)

\* <<statement, numerator column, denominator column, factor>>
Ratios == {<<"completion_pct", "completions", "attempts", 100>>,
           <<"yards_per_attempt", "passing_yards", "attempts", 1>>,
           <<"yards_per_completion", "passing_yards", "completions", 1>>,
           <<"yards_per_carry", "rushing_yards", "carries", 1>>,
           <<"catch_pct", "receptions", "targets", 100>>,
           <<"yards_per_target", "receiving_yards", "targets", 1>>,
           <<"yards_per_reception", "receiving_yards", "receptions", 1>>}

PerGames == {<<"fantasy_ppg", "fantasy_points">>,
             <<"fantasy_ppr_ppg", "fantasy_points_ppr">>}

Converted == result # NotRun

\* C1: once a row is converted, every derived ratio whose denominator column is 0
\* (attempts, completions, carries, targets, receptions) is exactly 0: its statement
\* does not raise and its value is neither null nor NaN (unless an earlier statement
\* of the pass raised, so that the ratio was never evaluated).
C1_ZeroDenominatorGivesZero ==
    Converted =>
        \A q \in Ratios :
            EqZero(Get(row, q[3], Num(0))) =>
                /\ result.at # q[1]
                /\ Local(result, q[1]) = Num(0) \/ RaisedBefore(result, q[1])

C1_Witness ==
    /\ Converted
    /\ Get(row, "attempts", Absent) = Num(0)
    /\ Get(row, "completions", Absent) = Num(2)
    /\ Get(row, "passing_yards", Absent) = Num(3)
    /\ Local(result, "completion_pct") = Num(0)
    /\ Local(result, "yards_per_attempt") = Num(0)

\* C2 as stated: with games_played = 0 both per-game fields are 0, whatever the
\* (numeric) fantasy totals are, and nothing raises.
C2_Original ==
    (/\ Converted
     /\ Get(row, "games_played", Absent) = Num(0)
     /\ \A g \in PerGames : IsNum(Get(row, g[2], Num(0))))
    => /\ result.raised = "none"
       /\ \A g \in PerGames : Local(result, g[1]) = Num(0)

\* C2 amended: with games_played = 0 the divisor is the floor max(games_played, 1) = 1,
\* so each per-game field equals its numeric fantasy total (0 only for a total of 0),
\* and no division error is raised whatever the totals are.
C2_ZeroGamesDividesByOne ==
    (Converted /\ Get(row, "games_played", Absent) = Num(0)) =>
        /\ result.raised # "ZeroDivisionError"
        /\ Local(result, "games_played") = Num(1) \/ RaisedBefore(result, "games_played")
        /\ \A g \in PerGames :
              IsNum(Get(row, g[2], Num(0))) =>
                  \/ Local(result, g[1]) = Get(row, g[2], Num(0))
                  \/ RaisedBefore(result, g[1])

C2_Witness ==
    /\ Converted
    /\ Get(row, "games_played", Absent) = Num(0)
    /\ Get(row, "fantasy_points", Absent) = Num(3)
    /\ Local(result, "fantasy_ppg") = Num(3)
    /\ result.raised = "none"

\* C3 as stated: the conversion never raises on missing, zero or null inputs, and
\* every derived ratio and per-game metric comes out as a number.
C3_NullInputsGiveNumbers ==
    Converted =>
        /\ result.raised = "none"
        /\ \A q \in Ratios : IsNum(Local(result, q[1]))
        /\ \A g \in PerGames : IsNum(Local(result, g[1]))

\* C4: once a row is converted, every ratio with a numeric numerator and a numeric
\* non-zero denominator has the value factor * numerator / denominator of the table,
\* every per-game field with a numeric total and numeric games_played has the value
\* total / max(games_played, 1) (unless an earlier statement raised), and the
\* specification's scenario row gives 200/3, 25/3, 25/2, 20 and 24.
C4_RatiosFollowTheFormulas ==
    Converted =>
        /\ \A q \in Ratios :
              LET num == Get(row, q[2], Num(0))
                  den == Get(row, q[3], Num(0))
                  v == Local(result, q[1])
              IN (IsNum(num) /\ IsNum(den) /\ den.n # 0) =>
                    \/ RaisedBefore(result, q[1])
                    \/ /\ IsNum(v)
                       /\ v.n * den.n * num.d = v.d * q[4] * num.n * den.d
        /\ \A g \in PerGames :
              LET total == Get(row, g[2], Num(0))
                  games == Get(row, "games_played", Num(1))
                  floor == IF games.n < games.d THEN 1 ELSE games.n \div games.d
                  v == Local(result, g[1])
              IN (IsNum(total) /\ IsNum(games)) =>
                    \/ RaisedBefore(result, g[1])
                    \/ /\ IsNum(v)
                       /\ v.n * floor * total.d = v.d * total.n
        /\ row = ScenarioRow =>
              /\ Local(result, "completion_pct") = Rat(200, 3)
              /\ Local(result, "yards_per_attempt") = Rat(25, 3)
              /\ Local(result, "yards_per_completion") = Rat(25, 2)
              /\ Local(result, "fantasy_ppg") = Num(20)
              /\ Local(result, "fantasy_ppr_ppg") = Num(24)

C4_Witness ==
    /\ Converted
    /\ row = ScenarioRow
    /\ result.raised = "none"
    /\ Local(result, "yards_per_completion") = Rat(25, 2)

(***************************************************************************)
(* Claims about the loaders (checked under Spec) and about the reducer     *)
(* (checked under SpecReduce).                                             *)
(***************************************************************************)
Requested == {seasons[i] : i \in 1..Len(seasons)}

StartTable == IF loader = "seasonal" THEN start.seasonal ELSE start.weekly

\* what the current run has done for season s so far
Events(s) == {trace[i] : i \in {j \in 1..Len(trace) : trace[j].season = s}}

Did(ev, s) == \E e \in Events(s) : e.ev = ev

\* failures of the environment: upstream did not answer, the database refused
EnvFailures == {"fetch_failed", "insert_failed", "commit_failed"}

\* C5 as stated (its row-count half): when a first run has returned and a second run
\* with the same arguments and force_reload = false has returned too, every requested
\* season has the row count it had after the first run.
C5_Original ==
    (repeated = "after_return" /\ ~force_reload /\ pc = "done") =>
        \A s \in Requested :
            Cardinality(RowsOf(Table, s)) = Cardinality(RowsOf(StartTable, s))

\* C5 amended: throughout a second run with the arguments of the first and
\* force_reload = false, every requested season that held at least one row after the
\* first run keeps its row count, and the run raises only when one of its own
\* existence counts fails.
C5_SecondRunKeepsLoadedSeasons ==
    (repeated # "no" /\ ~force_reload) =>
        /\ \A s \in Requested :
              RowsOf(StartTable, s) # {} =>
                  Cardinality(RowsOf(Table, s)) = Cardinality(RowsOf(StartTable, s))
        /\ pc = "raised" => trace[Len(trace)].ev = "count_failed"

C5_Witness ==
    /\ repeated = "after_return" /\ ~force_reload /\ pc = "done"
    /\ Len(seasons) = 2
    /\ \A s \in Requested : Did("skip", s) /\ Cardinality(RowsOf(Table, s)) = 2

\* C6 as stated: after a run with force_reload = true has returned, a requested season
\* that held rows before the run and for which a batch of n rows was fetched (and
\* neither upstream nor the database failed) holds exactly n rows, all of them new.
C6_ForceReloadReplaces ==
    (force_reload /\ pc = "done") =>
        \A s \in Requested : \A e \in Events(s) :
            (/\ e.ev = "fetch"
             /\ RowsOf(StartTable, s) # {}
             /\ \A f \in Events(s) : f.ev \notin EnvFailures)
            => /\ Cardinality(RowsOf(Table, s)) = e.n
               /\ \A r \in RowsOf(Table, s) : r.created = "during"

ReducedPlayers == {r.player_id : r \in RowsOf(weekly, reduced.season)}

\* C7 as stated: reducing a season gives exactly one seasonal record for each
\* player_id that has weekly rows in it.
C7_OneRecordPerPlayer ==
    reduced # NotReduced =>
        /\ reduced.raised = "none"
        /\ Len(reduced.records) = Cardinality(ReducedPlayers)
        /\ \A p \in ReducedPlayers :
              \E i \in 1..Len(reduced.records) : reduced.records[i].player_id = p

\* the weekly values of column c of player p in the reduced season, NULL as 0
WeeklyValues(p, c) ==
    LET sq == SetToSeq({r \in RowsOf(weekly, reduced.season) : r.player_id = p})
    IN [i \in 1..Len(sq) |-> OrZero(sq[i].stats[c])]

\* C8 as stated: every reduced record has the sums of its player's weekly
\* passing_yards and attempts (NULL as 0), games_played is the number of the player's
\* weekly rows, yards_per_attempt is summed yards / summed attempts, and weekly
\* passing_yards 100, 150, 0 over attempts 10, 15, 0 give 250, 25, 10.0 and 3 games.
C8_SeasonTotalsAreSums ==
    reduced # NotReduced =>
        /\ reduced.raised = "none"
        /\ \A p \in ReducedPlayers :
              \E i \in 1..Len(reduced.records) :
                  LET rec == reduced.records[i]
                      yds == SumVals(WeeklyValues(p, "passing_yards"))
                      att == SumVals(WeeklyValues(p, "attempts"))
                  IN /\ rec.player_id = p
                     /\ rec.passing_yards = yds
                     /\ rec.attempts = att
                     /\ rec.games_played = Num(Len(WeeklyValues(p, "attempts")))
                     /\ att.n # 0 => rec.yards_per_attempt = Rat(yds.n * att.d, yds.d * att.n)
        /\ (reduced.season = 2023 /\ RowsOf(weekly, 2023) = RowsOf(WeeklyExample, 2023)) =>
              /\ reduced.records[1].passing_yards = Num(250)
              /\ reduced.records[1].attempts = Num(25)
              /\ reduced.records[1].yards_per_attempt = Num(10)
              /\ reduced.records[1].games_played = Num(3)

\* C9: in a run with force_reload = false, a requested season that held at least one
\* row when the run began is skipped: nothing but the skip is ever done for it (no
\* fetch, conversion, insert or commit, finished or under way) and its stored rows
\* stay exactly the rows it held.
C9_LoadedSeasonIsSkipped ==
    (pc # "idle" /\ ~force_reload) =>
        \A s \in Requested :
            RowsOf(StartTable, s) # {} =>
                /\ \A e \in Events(s) : e.ev = "skip"
                /\ (pc \in {"fetch", "convert", "insert", "commit"}) => Season # s
                /\ RowsOf(Table, s) = RowsOf(StartTable, s)

\* a season holding one of two players' rows is skipped while the other season is loaded
C9_Witness ==
    /\ ~force_reload /\ pc = "done" /\ loader = "seasonal"
    /\ \E s, t \in Requested :
          /\ Cardinality(RowsOf(StartTable, s)) = 1
          /\ Did("skip", s)
          /\ RowsOf(Table, s) = RowsOf(StartTable, s)
          /\ Did("commit", t)

\* C10: in a run with force_reload = true, whenever a replacement row has been handed
\* to the session or committed, the first two things the run did were the delete of
\* the requested seasons and its commit, and from that commit on no row stored before
\* the run is left in any requested season.
C10_DeleteCommittedBeforeInsert ==
    (pc # "idle" /\ force_reload) =>
        /\ (\/ pending.op = "insert"
            \/ \E i \in 1..Len(trace) : trace[i].ev \in {"fetch", "insert", "commit"})
           => /\ Len(trace) >= 2
              /\ trace[1].ev = "delete"
              /\ trace[2].ev = "commit_delete"
        /\ (\E i \in 1..Len(trace) : trace[i].ev = "commit_delete")
           => \A s \in Requested : \A r \in RowsOf(Table, s) : r.created = "during"
        /\ pc \in {"loop", "fetch", "convert", "insert", "commit", "done"}
           => \E i \in 1..Len(trace) : trace[i].ev = "commit_delete"

C10_Witness ==
    /\ force_reload /\ pc = "done" /\ Len(seasons) = 2
    /\ \A s \in Requested :
          /\ RowsOf(StartTable, s) # {}
          /\ Did("commit", s)
          /\ \A r \in RowsOf(Table, s) : r.created = "during"

(***************************************************************************)
(* The batched weekly loaders: load_remaining_years (load_remaining_years  *)
(* .py) and load_historical_weekly_stats (load_historical_weekly_stats.py).*)
(* The year range, the chunk size and the batch size are scaled down; the  *)
(* loops are the loops of the source.                                      *)
(***************************************************************************)
MaxRows == 3

\* target_years = list(range(2009, 2024)), scaled to three years
target_years == <<2022, 2023, 2024>>

\* chunk_size = 5, scaled
chunk_size == 2

\* batch_size = 500 (load_remaining_years) / 1000 (load_historical_weekly_stats), scaled
batch_size == 2

Min(a, b) == IF a < b THEN a ELSE b

\* sq[lo:hi], Python's slice with 0-based bounds
Slice(sq, lo, hi) == SubSeq(sq, lo + 1, Min(hi, Len(sq)))

\* a loader without the skip-if-exists check
MissingYears_All(t) == target_years

\* [year for year in target_years if year not in existing_years_set]
MissingYears(t) ==
    SelectSeq(target_years, LAMBDA y : \A r \in t : r.season # y)

\* chunk_years = missing_years[i:i+chunk_size]
chunk_years == Slice(missing_years, idx, idx + chunk_size)

\* the frames nfl.import_weekly_data(years) can return: rows of the years asked for (one
\* week of each, two of the first target year), under the columns of the table or with
\* a column the table does not have
WeeklyFrames(years) ==
    LET pool == {r \in {[player_id |-> "p1", season |-> years[i], week |-> w] :
                            i \in 1..Len(years), w \in 1..2} :
                    r.week = 2 => r.season = target_years[1]}
    IN {[rows |-> rs, columns |-> c] :
           rs \in UNION {[1..n -> pool] : n \in 0..MaxRows},
           c \in {NFLWeeklyStatsColumns \ {"created_at", "updated_at"},
                  (NFLWeeklyStatsColumns \ {"created_at", "updated_at"}) \cup {"player_headshot"}}}

\* NFLWeeklyStats(**record)
NFLWeeklyStatsFromRecord(r) ==
    [WeeklyRow(r.player_id, r.season, r.week, "A", Num(0), Num(0)) EXCEPT !.created = "during"]

\* batch = records[j:j+batch_size]
batch == Slice(data.rows, jdx, jdx + batch_size)

\* batch_num = (j // batch_size) + 1
batch_num == (jdx \div batch_size) + 1

\* what the try block of one batch does: the objects are built, bulk-saved and committed,
\* or one of the three raises
BatchOutcome(t) ==
    IF ~ConstructorAccepts(NFLWeeklyStatsColumns, data.columns) THEN "TypeError"
    ELSE IF PrimaryKeyConflict([i \in 1..Len(batch) |-> NFLWeeklyStatsFromRecord(batch[i])], t)
    THEN "IntegrityError"
    ELSE "saved"

BatchRows == {NFLWeeklyStatsFromRecord(batch[i]) : i \in 1..Len(batch)}

\* which loader wraps one batch in  try: ... except Exception: session.rollback(); continue
CatchesBatchError_Never(l) == FALSE

CatchesBatchError(l) == l = "remaining"

Rerun == IF pc = "idle" THEN "no" ELSE IF pc = "done" THEN "after_return" ELSE "after_raise"

\* the outer  except Exception: session.rollback(); raise  of the batched loaders
RaiseBatched(ev, s) ==
    /\ pc' = "raised"
    /\ trace' = Append(trace, Event(ev, s, 0))

\* load_remaining_years() begins: the existing years are read, the missing ones computed
StartRemaining ==
    /\ pc \in {"idle", "done", "raised"}
    /\ loader = "remaining"
    /\ weekly' = Aged(weekly)
    /\ start' = [seasonal |-> seasonal, weekly |-> Aged(weekly)]
    /\ repeated' = Rerun
    /\ prev' = (\E i \in 1..Len(trace) : trace[i].ev \in {"fetch_failed", "batch_failed"})
    /\ idx' = 0
    /\ jdx' = 0
    /\ data' = <<>>
    /\ \/ /\ missing_years' = MissingYears(weekly)
          /\ trace' = <<>>
          /\ pc' = IF MissingYears(weekly) = <<>> THEN "done" ELSE "chunk"
       \/ /\ missing_years' = <<>>
          /\ trace' = <<Event("existing_failed", 0, 0)>>
          /\ pc' = "raised"
    /\ UNCHANGED <<metricVars, pbpVars, serviceVars, seasonal, loader, seasons, force_reload, use_api, records,
                   pending>>

\* for i in range(0, len(missing_years), chunk_size): the chunk is fetched
FetchChunk ==
    /\ pc = "chunk"
    /\ IF idx >= Len(missing_years)
       THEN /\ pc' = "verify"
            /\ UNCHANGED <<data, jdx, trace>>
       ELSE \/ \E f \in WeeklyFrames(chunk_years) :
                  /\ data' = f
                  /\ jdx' = 0
                  /\ pc' = "batch"
                  /\ trace' = Append(trace, Event("fetch", chunk_years[1], Len(f.rows)))
            \/ /\ RaiseBatched("fetch_failed", chunk_years[1])
               /\ UNCHANGED <<data, jdx>>
    /\ UNCHANGED <<metricVars, pbpVars, serviceVars, seasonal, weekly, loader, seasons, force_reload, use_api, idx,
                   records, pending, start, repeated, missing_years, prev>>

\* load_historical_weekly_stats(start_year, end_year) begins: all years are fetched at once
StartHistorical(start_year, end_year) ==
    /\ pc \in {"idle", "done", "raised"}
    /\ loader = "historical"
    /\ start_year <= end_year
    /\ weekly' = Aged(weekly)
    /\ start' = [seasonal |-> seasonal, weekly |-> Aged(weekly)]
    /\ repeated' = Rerun
    /\ seasons' = [i \in 1..(end_year - start_year + 1) |-> start_year + i - 1]
    /\ prev' = (\E i \in 1..Len(trace) : trace[i].ev \in {"fetch_failed", "batch_failed"})
    /\ idx' = 0
    /\ jdx' = 0
    /\ \/ \E f \in WeeklyFrames(seasons') :
              /\ data' = f
              /\ pc' = "batch"
              /\ trace' = <<Event("fetch", start_year, Len(f.rows))>>
       \/ /\ data' = <<>>
          /\ pc' = "raised"
          /\ trace' = <<Event("fetch_failed", start_year, 0)>>
    /\ UNCHANGED <<metricVars, pbpVars, serviceVars, seasonal, loader, force_reload, use_api, records, pending,
                   missing_years>>

\* one pass of  for j in range(0, len(records), batch_size)  or the end of that loop
InsertBatch ==
    /\ pc = "batch"
    /\ IF jdx >= Len(data.rows)
       THEN /\ pc' = IF loader = "remaining" THEN "chunk" ELSE "verify"
            /\ idx' = IF loader = "remaining" THEN idx + chunk_size ELSE idx
            /\ UNCHANGED <<weekly, jdx, trace>>
       ELSE \E out \in {BatchOutcome(weekly), "OperationalError"} :
               IF out = "saved"
               THEN /\ weekly' = weekly \cup BatchRows
                    /\ jdx' = jdx + batch_size
                    /\ trace' = Append(trace, Event("batch_saved", batch[1].season, Len(batch)))
                    /\ UNCHANGED <<pc, idx>>
               ELSE IF CatchesBatchError(loader)
               THEN /\ jdx' = jdx + batch_size
                    /\ trace' = Append(trace, Event("batch_failed", batch[1].season, Len(batch)))
                    /\ UNCHANGED <<weekly, pc, idx>>
               ELSE /\ RaiseBatched("batch_failed", batch[1].season)
                    /\ UNCHANGED <<weekly, jdx, idx>>
    /\ UNCHANGED <<metricVars, pbpVars, serviceVars, seasonal, loader, seasons, force_reload, use_api, data,
                   records, pending, start, repeated, missing_years, prev>>

\* the final verification queries: the summary is printed, or the query raises
Verify ==
    /\ pc = "verify"
    /\ \/ pc' = "done" /\ UNCHANGED trace
       \/ RaiseBatched("verify_failed", 0)
    /\ UNCHANGED <<metricVars, otherVars, seasonal, weekly, loader, seasons, force_reload,
                   use_api, idx, data, records, pending, start, repeated>>

(***************************************************************************)
(* load_pbp_data (load_pbp_data.py): one year at a time, skipped when the  *)
(* year holds rows; each chunk is written and committed by its own to_sql. *)
(***************************************************************************)
\* chunk_size = 10000, scaled
pbp_chunk_size == 2

InitialPbp == {{}, {[season |-> 2023, play_id |-> 1, created |-> "before"]}}

\* chunk = pbp_filtered.iloc[i:i+chunk_size]
PbpChunkRows ==
    {[season |-> data.rows[k].season, play_id |-> data.rows[k].play_id, created |-> "during"] :
        k \in (jdx + 1)..Min(jdx + pbp_chunk_size, Len(data.rows))}

\* the next pass of  for year in years
NextYear(ev, n) ==
    /\ idx' = idx + 1
    /\ pc' = "pbp_loop"
    /\ trace' = Append(trace, Event(ev, Season, n))

\* load_pbp_data(engine, years) begins
StartPbp(years) ==
    /\ pc \in {"idle", "done", "raised"}
    /\ loader = "pbp"
    /\ seasons' = years
    /\ repeated' = IF years = seasons THEN Rerun ELSE "no"
    /\ prev' = (\E i \in 1..Len(trace) : trace[i].ev \in {"fetch_failed", "chunk_failed"})
    /\ pbp' = Aged(pbp)
    /\ pbp_start' = Aged(pbp)
    /\ idx' = 1
    /\ jdx' = 0
    /\ data' = <<>>
    /\ trace' = <<>>
    /\ pc' = "pbp_loop"
    /\ UNCHANGED <<metricVars, serviceVars, seasonal, weekly, loader, force_reload, use_api,
                   records, pending, start, missing_years>>

\* existing_count for the year: the year is skipped, or fetched, or the count raises
\* (it stands outside the try)
PbpCount ==
    /\ pc = "pbp_loop"
    /\ IF idx > Len(seasons)
       THEN pc' = "done" /\ UNCHANGED <<idx, trace>>
       ELSE \/ RowsOf(pbp, Season) # {} /\ NextYear("skip", 0)
            \/ RowsOf(pbp, Season) = {} /\ pc' = "pbp_fetch" /\ UNCHANGED <<idx, trace>>
            \/ RaiseBatched("count_failed", Season) /\ UNCHANGED idx
    /\ UNCHANGED <<metricVars, serviceVars, seasonal, weekly, loader, seasons, force_reload,
                   use_api, data, records, pending, start, repeated, missing_years, jdx, prev,
                   pbpVars>>

\* pbp_data = nfl.import_pbp_data([year]): plays 1..n of the year, none, or an error
PbpFetch ==
    /\ pc = "pbp_fetch"
    /\ \/ \E n \in 1..MaxRows :
             /\ data' = [rows |-> [k \in 1..n |-> [season |-> Season, play_id |-> k]],
                         columns |-> {}]
             /\ jdx' = 0
             /\ pc' = "pbp_chunk"
             /\ trace' = Append(trace, Event("fetch", Season, n))
             /\ UNCHANGED idx
       \/ NextYear("empty", 0) /\ UNCHANGED <<data, jdx>>
       \/ NextYear("fetch_failed", 0) /\ UNCHANGED <<data, jdx>>
    /\ UNCHANGED <<metricVars, serviceVars, seasonal, weekly, loader, seasons, force_reload,
                   use_api, records, pending, start, repeated, missing_years, prev, pbpVars>>

\* one chunk.to_sql(...): written and committed, or it raises and the year is given up
\* with the chunks written so far left in the table
PbpChunk ==
    /\ pc = "pbp_chunk"
    /\ IF jdx >= Len(data.rows)
       THEN NextYear("loaded", Len(data.rows)) /\ UNCHANGED <<pbp, jdx>>
       ELSE \/ /\ pbp' = pbp \cup PbpChunkRows
               /\ jdx' = jdx + pbp_chunk_size
               /\ trace' = Append(trace, Event("chunk_saved", Season, Cardinality(PbpChunkRows)))
               /\ UNCHANGED <<pc, idx>>
            \/ NextYear("chunk_failed", 0) /\ UNCHANGED <<pbp, jdx>>
    /\ UNCHANGED <<metricVars, serviceVars, seasonal, weekly, loader, seasons, force_reload,
                   use_api, data, records, pending, start, repeated, missing_years, prev,
                   pbp_start>>

\* the tables as a batched loader finds them before its first call
InitBatched ==
    /\ row = ScenarioRow
    /\ result = NotRun
    /\ reduced = NotReduced
    /\ loader \in {"remaining", "historical", "pbp"}
    /\ seasonal = {}
    /\ weekly \in (IF loader = "pbp" THEN {{}} ELSE InitialWeekly)
    /\ pbp \in (IF loader = "pbp" THEN InitialPbp ELSE {{}})
    /\ pbp_start = pbp
    /\ missing_years = <<>>
    /\ jdx = 0
    /\ prev = FALSE
    /\ ServiceIdle
    /\ HelpersIdle
    /\ start = [seasonal |-> seasonal, weekly |-> weekly]
    /\ pc = "idle"
    /\ seasons = <<>>
    /\ force_reload = FALSE
    /\ use_api = TRUE
    /\ idx = 1
    /\ data = <<>>
    /\ records = <<>>
    /\ pending = NoChange
    /\ trace = <<>>
    /\ repeated = "no"

NextBatched ==
    \/ StartRemaining
    \/ \E start_year, end_year \in AllSeasons : StartHistorical(start_year, end_year)
    \/ FetchChunk
    \/ InsertBatch
    \/ Verify
    \/ \E years \in SeasonLists : StartPbp(years)
    \/ PbpCount
    \/ PbpFetch
    \/ PbpChunk

SpecBatched == InitBatched /\ [][NextBatched]_vars

(***************************************************************************)
(* Claims about the batched loaders (checked under SpecBatched).           *)
(***************************************************************************)
BatchEvs == {"batch_saved", "batch_failed"}

\* the batch events that follow the fetch at trace[i], up to the next fetch
BatchesOf(i) ==
    {k \in (i + 1)..Len(trace) :
        /\ trace[k].ev \in BatchEvs
        /\ \A m \in (i + 1)..k : trace[m].ev # "fetch"}

LastFetch(i) == \A m \in (i + 1)..Len(trace) : trace[m].ev # "fetch"

\* total_batches = (len(records) + batch_size - 1) // batch_size
total_batches(n) == (n + batch_size - 1) \div batch_size

\* the rows the saved batches of the run held
RECURSIVE SavedRows(_)
SavedRows(tr) ==
    IF tr = <<>> THEN 0
    ELSE (IF Head(tr).ev = "batch_saved" THEN Head(tr).n ELSE 0) + SavedRows(Tail(tr))

RowsDuring(t) == {r \in t : r.created = "during"}

InitAll == Init \/ InitBatched

NextAll == Next \/ NextBatched

SpecAll == InitAll /\ [][NextAll]_vars

\* the keys a failed fetch was for: the season, or the years of the chunk
FailedKeys(i) ==
    IF loader = "remaining"
    THEN {y \in {missing_years[k] : k \in 1..Len(missing_years)} :
             \E k \in (idx + 1)..Min(idx + chunk_size, Len(missing_years)) :
                 missing_years[k] = y}
    ELSE {trace[i].season}

C13_PrimaryKeysUnique ==
    /\ \A r1, r2 \in seasonal :
          (r1.player_id = r2.player_id /\ r1.season = r2.season) => r1 = r2
    /\ \A r1, r2 \in weekly :
          (r1.player_id = r2.player_id /\ r1.season = r2.season /\ r1.week = r2.week)
              => r1 = r2

\* a batch whose columns fit the table was refused: it repeats a key or holds the key
\* of a stored row
C13_Witness ==
    /\ loader = "historical" /\ pc = "raised"
    /\ trace[Len(trace)].ev = "batch_failed"
    /\ data.columns \subseteq NFLWeeklyStatsColumns
    /\ \E i \in 1..Len(batch) : \E r \in weekly :
          /\ r.player_id = batch[i].player_id
          /\ r.season = batch[i].season
          /\ r.week = batch[i].week

\* the failures handled inside the loop body of one season
SeasonFailures ==
    {"fetch_failed", "calculate_failed", "convert_failed", "insert_failed", "commit_failed"}

\* the failures that reach the outer handler, which rolls back and raises
OuterFailures == {"delete_failed", "commit_delete_failed", "count_failed"}

\* C14 as stated: no exception of a fetch or of a database operation inside
\* load_seasonal_stats or load_weekly_stats reaches the caller.
C14_Original == pc # "raised"

\* C14 amended: an exception of the fetch, the reduction, the conversion, the insert or
\* its commit of one season is handled and the run goes on; an exception of the
\* force-reload delete, of its commit or of an existence count is rolled back and
\* raised to the caller.
C14_OnlyDeleteAndCountPropagate ==
    /\ pc = "raised" =>
          /\ trace # <<>>
          /\ trace[Len(trace)].ev \in OuterFailures
          /\ pending = NoChange
    /\ \A i \in 1..Len(trace) :
          /\ trace[i].ev \in SeasonFailures => ~(pc = "raised" /\ i = Len(trace))
          /\ trace[i].ev \in OuterFailures => (pc = "raised" /\ i = Len(trace))

\* a run handled the failed fetch of its first season and was ended by the failed
\* existence count of its second
C14_Witness ==
    /\ pc = "raised" /\ Len(seasons) = 2 /\ Len(trace) = 2
    /\ trace[1].ev = "fetch_failed"
    /\ trace[2].ev = "count_failed"

TargetYears == {target_years[k] : k \in 1..Len(target_years)}

\* the years that held no row when the current run began
EmptyAtStart == {y \in TargetYears : RowsOf(start.weekly, y) = {}}

\* number of chunks of a list of n years
Chunks(n) == (n + chunk_size - 1) \div chunk_size

\* load_remaining_years: see C15
RemainingLoadsOnlyEmptyKeys ==
    (loader = "remaining" /\ pc # "idle") =>
        /\ \A y \in TargetYears \ EmptyAtStart : RowsOf(weekly, y) = RowsOf(start.weekly, y)
        /\ \A i \in 1..Len(trace) :
              trace[i].ev \in {"fetch", "fetch_failed", "batch_saved", "batch_failed"}
                  => trace[i].season \in EmptyAtStart
        /\ \A r \in RowsDuring(weekly) : r.season \in EmptyAtStart
        /\ pc \in {"chunk", "batch", "verify", "done"} =>
              {missing_years[k] : k \in 1..Len(missing_years)} = EmptyAtStart
        /\ pc = "done" =>
              Cardinality({i \in 1..Len(trace) : trace[i].ev = "fetch"})
                  = Chunks(Cardinality(EmptyAtStart))

\* load_pbp_data: see C15
PbpLoadsOnlyEmptyKeys ==
    (loader = "pbp" /\ pc # "idle") =>
        \A y \in Requested :
            /\ RowsOf(pbp_start, y) # {} =>
                  /\ RowsOf(pbp, y) = RowsOf(pbp_start, y)
                  /\ \A e \in Events(y) : e.ev \in {"skip", "count_failed"}
            /\ (RowsOf(pbp_start, y) = {} /\ pc = "done") =>
                  \E e \in Events(y) : e.ev \in {"fetch", "empty", "fetch_failed"}

\* C15: a run of load_remaining_years or load_pbp_data (the re-run after a failed or
\* partly written load among them) works on exactly the years that held no row when it
\* began: every fetch and every insert is for such a year, a run that returns has
\* fetched every one of them, and a year that held at least one row keeps exactly the
\* rows it held.
C15_RerunLoadsOnlyEmptyKeys == RemainingLoadsOnlyEmptyKeys /\ PbpLoadsOnlyEmptyKeys

\* a re-run after a run with a failure: the first target year, of which one of two
\* weeks is stored, is left as it is while a year without rows is loaded
C15_Witness ==
    /\ loader = "remaining" /\ pc = "done" /\ repeated # "no" /\ prev
    /\ Cardinality(RowsOf(start.weekly, target_years[1])) = 1
    /\ RowsOf(weekly, target_years[1]) = RowsOf(start.weekly, target_years[1])
    /\ \E i \in 1..Len(trace) :
          trace[i].ev = "batch_saved" /\ RowsOf(start.weekly, trace[i].season) = {}


(***************************************************************************)
(* SleeperClient (api/sleeper_client.py).  The clock time.time() is        *)
(* counted in whole seconds and only moves forward; Epoch is its value     *)
(* when the client is constructed, later than any min_interval after the   *)
(* initial last_request_time of 0.  rate_limit is the configured number of *)
(* requests per minute.  A request is issued at the time                   *)
(* _rate_limit_check stamps into last_request_time, the last statement     *)
(* before requests.get.                                                    *)
(***************************************************************************)
MaxTime == 4
MaxRequests == 3
MaxLag == 1
Epoch == 60
RateLimits == {20, 30, 60}

\* exceptions of requests.get / raise_for_status that derive from RequestException
RequestException == {"ConnectionError", "Timeout", "HTTPError"}

\* what one HTTP attempt can come to: a JSON body, a request error, or a body that is
\* not JSON (a RequestException or a plain ValueError, by the version of requests)
Outcomes == {"json", "bad_body"} \cup RequestException

\* min_interval = 60 / self.rate_limit
min_interval == 60 \div rate_limit

\* time_since_last = current_time - self.last_request_time
time_since_last(current_time) == current_time - last_request_time

sleep_time_None(current_time) == 0

\* sleep_time = min_interval - time_since_last when called too soon, no sleep otherwise
sleep_time(current_time) ==
    IF time_since_last(current_time) < min_interval
    THEN min_interval - time_since_last(current_time)
    ELSE 0

\* the number of requests.get calls of one _make_request: one statement, no loop
Tries(outcome) == 1

Caught_Never(outcome, json_is_request_error) == FALSE

\* except requests.exceptions.RequestException
Caught(outcome, json_is_request_error) ==
    \/ outcome \in RequestException
    \/ outcome = "bad_body" /\ json_is_request_error

\* the value _make_request returns, or the exception that leaves it
Returns(outcome, json_is_request_error) ==
    IF outcome = "json" THEN "json"
    ELSE IF Caught(outcome, json_is_request_error) THEN "None"
    ELSE "raised"

\* one call of _make_request(endpoint): _rate_limit_check (sleep, which lasts at least
\* sleep_time, then the stamp), then the single requests.get under try/except
MakeRequest(outcome, lag, json_is_request_error) ==
    /\ Len(issued) < MaxRequests
    /\ LET current_time == now
           slept == sleep_time(current_time)
           stamp == current_time + slept + (IF slept > 0 THEN lag ELSE 0)
       IN  /\ now' = stamp
           /\ last_request_time' = stamp
           /\ issued' = Append(issued, [at |-> stamp, called |-> current_time,
                                        since |-> last_request_time,
                                        slept |-> slept, outcome |-> outcome])
    /\ attempts' = Tries(outcome)
    /\ response' = Returns(outcome, json_is_request_error)
    /\ cpc' = IF response' = "raised" THEN "raised" ELSE "returned"
    /\ UNCHANGED <<rate_limit, metricVars, loaderVars, batchVars, syncVars>>

\* a second passes between two calls (the request itself, the caller's own work)
Tick ==
    /\ now < Epoch + MaxTime
    /\ now' = now + 1
    /\ UNCHANGED <<last_request_time, rate_limit, cpc, issued, attempts, response,
                   metricVars, loaderVars, batchVars, syncVars>>

InitClient ==
    /\ row = ScenarioRow
    /\ result = NotRun
    /\ reduced = NotReduced
    /\ seasonal = {}
    /\ weekly = {}
    /\ start = [seasonal |-> {}, weekly |-> {}]
    /\ LoaderIdle
    /\ BatchIdle
    /\ SyncIdle
    /\ HelpersIdle
    /\ now = Epoch
    /\ last_request_time = 0
    /\ rate_limit \in RateLimits
    /\ cpc = "idle"
    /\ issued = <<>>
    /\ attempts = 0
    /\ response = "none"

NextClient ==
    \/ \E outcome \in Outcomes, lag \in 0..MaxLag, json_is_request_error \in BOOLEAN :
           MakeRequest(outcome, lag, json_is_request_error)
    \/ Tick

SpecClient == InitClient /\ [][NextClient]_vars

(***************************************************************************)
(* Claims about SleeperClient (checked under SpecClient).                  *)
(***************************************************************************)
\* C16: two consecutive requests of one client are issued at least 60 / rate_limit
\* seconds apart, and a call made sooner than that after the previous request sleeps
\* for exactly the remaining part of the interval (a call made later does not sleep).
C16_RequestsAtLeastMinIntervalApart ==
    \A i \in 1..Len(issued) :
        /\ i > 1 => (issued[i].at - issued[i - 1].at) * rate_limit >= 60
        /\ issued[i].since = (IF i = 1 THEN 0 ELSE issued[i - 1].at)
        /\ IF (issued[i].called - issued[i].since) * rate_limit < 60
           THEN (issued[i].slept + issued[i].called - issued[i].since) * rate_limit = 60
           ELSE issued[i].slept = 0

\* a second request, called one second after the first with three seconds required,
\* slept the two seconds that remained
C16_Witness ==
    /\ Len(issued) >= 2
    /\ rate_limit = 20
    /\ issued[2].called - issued[1].at = 1
    /\ issued[2].slept = 2

\* C17: a call of _make_request makes exactly one HTTP attempt, and a call whose attempt
\* fails with a connection error, a timeout or an HTTP error status returns None and
\* does not raise.
C17_OneAttemptNoneOnRequestError ==
    Len(issued) > 0 =>
        /\ attempts = 1
        /\ issued[Len(issued)].outcome \in RequestException =>
               response = "None" /\ cpc = "returned"

\* a call whose only attempt timed out returned None, and the next call goes ahead
C17_Witness ==
    /\ Len(issued) >= 2
    /\ issued[1].outcome = "Timeout"
    /\ issued[2].outcome = "HTTPError"
    /\ attempts = 1
    /\ response = "None"


(***************************************************************************)
(* DataSyncService (services/data_sync.py): sync_user_leagues,             *)
(* sync_league_rosters and sync_league_matchups.  An upstream record is a  *)
(* dict; only its required key matters here.  The session is made with     *)
(* autoflush=False, so a query sees the committed rows and not the pending *)
(* db.add()s.  A stored row carries the call and the position that added   *)
(* it in place of its autoincrement id.                                    *)
(***************************************************************************)
MaxRecords == 3
MaxPayload == 2
SyncFns == {"sync_user_leagues", "sync_league_rosters", "sync_league_matchups"}
KeyValues == {1, 2}

\* league_data['league_id'], roster_data['roster_id'], matchup_data['roster_id']
RequiredKey(fn) == IF fn = "sync_user_leagues" THEN "league_id" ELSE "roster_id"

\* an upstream record without league_id and without roster_id
NoKey == [name |-> 0]

UpstreamRecords(fn) == {[f \in {RequiredKey(fn)} |-> v] : v \in KeyValues} \cup {NoKey}

\* what the client hands back: a list of records; <<>> stands for None and for []
Payloads(fn) == UNION {[1..n -> UpstreamRecords(fn)] : n \in 0..MaxPayload}

\* the arguments league_id and week of a call (user_id of sync_user_leagues plays no part)
SyncArgs(fn) ==
    IF fn = "sync_user_leagues" THEN {[league_id |-> 0, week |-> 0]}
    ELSE IF fn = "sync_league_rosters"
         THEN {[league_id |-> l, week |-> 0] : l \in KeyValues}
         ELSE {[league_id |-> 1, week |-> w] : w \in KeyValues}

\* the subscript rec[key] raises KeyError when this is false
HasKey(rec, fn) == RequiredKey(fn) \in DOMAIN rec

KeyOf(rec, fn) == rec[RequiredKey(fn)]

TableOf(fn) ==
    IF fn = "sync_user_leagues" THEN "leagues"
    ELSE IF fn = "sync_league_rosters" THEN "rosters" ELSE "matchups"

\* League(id=league_id, ...), Roster(roster_id=..., league_id=league_id, ...),
\* Matchup(league_id=league_id, roster_id=..., week=week, ...)
NewRow(fn, rec) ==
    [table |-> TableOf(fn),
     league_id |-> IF fn = "sync_user_leagues" THEN KeyOf(rec, fn) ELSE args.league_id,
     roster_id |-> IF fn = "sync_user_leagues" THEN 0 ELSE KeyOf(rec, fn),
     week |-> args.week,
     run |-> Len(runs),
     pos |-> pos]

\* db.query(...).filter_by(...).first(): the committed rows with the record's key
Existing(fn, rec) ==
    {r \in stored : /\ r.table = TableOf(fn)
                    /\ r.league_id = NewRow(fn, rec).league_id
                    /\ r.roster_id = NewRow(fn, rec).roster_id
                    /\ r.week = NewRow(fn, rec).week}

RECURSIVE Cost(_)
\* the records handled by the calls so far, a call without records counting for one
Cost(rs) ==
    IF rs = <<>> THEN 0
    ELSE (IF rs[1].payload = <<>> THEN 1 ELSE Len(rs[1].payload)) + Cost(Tail(rs))

Result(kind) == [kind |-> kind, count |-> count, league_ids |-> league_ids]

\* the call, the fetch through the client and the early return on nothing fetched
StartSync(fn, a, fetched) ==
    /\ fn = sfn
    /\ spc \in {"idle", "returned"}
    /\ Cost(Append(runs, [args |-> a, payload |-> fetched])) <= MaxRecords
    /\ runs' = Append(runs, [args |-> a, payload |-> fetched])
    /\ args' = a
    /\ payload' = fetched
    /\ pos' = 1
    /\ count' = 0
    /\ league_ids' = <<>>
    /\ added' = {}
    /\ log' = <<>>
    /\ IF fetched = <<>>
       THEN spc' = "returned" /\ sresult' = [Result("returned") EXCEPT !.count = 0,
                                                                     !.league_ids = <<>>]
       ELSE spc' = "loop" /\ sresult' = NoResult
    /\ UNCHANGED <<sfn, stored, metricVars, loaderVars, batchVars, clientVars>>

CatchesRecordError_Never(fn) == FALSE

\* except Exception as e: ... continue, around the body of each of the three loops
CatchesRecordError(fn) == fn \in SyncFns

\* one pass of the for loop: the try block over one record, and its except/continue
SyncRecord ==
    /\ spc = "loop"
    /\ pos <= Len(payload)
    /\ LET rec == payload[pos]
       IN  IF ~HasKey(rec, sfn)
           THEN /\ log' = Append(log, "KeyError")
                /\ IF CatchesRecordError(sfn)
                   THEN pos' = pos + 1 /\ UNCHANGED <<spc, sresult>>
                   ELSE spc' = "raised" /\ sresult' = Result("raised") /\ UNCHANGED pos
                /\ UNCHANGED <<count, league_ids, added>>
           ELSE /\ pos' = pos + 1
                /\ UNCHANGED <<spc, sresult>>
                /\ league_ids' = IF sfn = "sync_user_leagues"
                                 THEN Append(league_ids, KeyOf(rec, sfn))
                                 ELSE league_ids
                /\ \/ /\ Existing(sfn, rec) = {}
                      /\ added' = added \cup {NewRow(sfn, rec)}
                      /\ count' = IF sfn = "sync_user_leagues" THEN count ELSE count + 1
                      /\ log' = Append(log, "added")
                   \/ /\ Existing(sfn, rec) # {}
                      /\ log' = Append(log, "exists")
                      /\ UNCHANGED <<count, added>>
                   \/ /\ log' = Append(log, "db_error")
                      /\ UNCHANGED <<count, added>>
    /\ UNCHANGED <<sfn, payload, stored, args, runs,
                   metricVars, loaderVars, batchVars, clientVars>>

\* two pending League objects with one primary key cannot both be inserted
CommitMustFail == \E r1, r2 \in added : r1 # r2 /\ r1.table = "leagues"
                                         /\ r1.league_id = r2.league_id

\* db.commit() after the loop and the return; a failed commit leaves the function
Commit ==
    /\ spc = "loop"
    /\ pos > Len(payload)
    /\ \/ /\ ~CommitMustFail
          /\ stored' = stored \cup added
          /\ spc' = "returned"
          /\ sresult' = Result("returned")
       \/ /\ spc' = "raised"
          /\ sresult' = Result("raised")
          /\ UNCHANGED stored
    /\ UNCHANGED <<sfn, payload, pos, count, league_ids, added, args, log, runs,
                   metricVars, loaderVars, batchVars, clientVars>>

InitSync ==
    /\ row = ScenarioRow
    /\ result = NotRun
    /\ reduced = NotReduced
    /\ seasonal = {}
    /\ weekly = {}
    /\ start = [seasonal |-> {}, weekly |-> {}]
    /\ LoaderIdle
    /\ BatchIdle
    /\ ClientIdle
    /\ HelpersIdle
    /\ sfn \in SyncFns
    /\ spc = "idle"
    /\ payload = <<>>
    /\ pos = 1
    /\ count = 0
    /\ league_ids = <<>>
    /\ added = {}
    /\ stored = {}
    /\ sresult = NoResult
    /\ args = [league_id |-> "none", week |-> 0]
    /\ log = <<>>
    /\ runs = <<>>

NextSync ==
    \/ \E fn \in SyncFns : \E a \in SyncArgs(fn), fetched \in Payloads(fn) :
           StartSync(fn, a, fetched)
    \/ SyncRecord
    \/ Commit

SpecSync == InitSync /\ [][NextSync]_vars

(***************************************************************************)
(* Claims about DataSyncService (checked under SpecSync).                  *)
(***************************************************************************)
\* the rows of the running call that are pending or committed
RowsOfCall == {r \in added \cup stored : r.run = Len(runs)}

\* C18: in the three sync functions a record without its required key is skipped alone:
\* it adds nothing and ends nothing, every other record of the payload is still looked
\* up (and added when it is new), nothing but the commit itself makes the function
\* raise, and the rows added for the other records are committed when it returns.
C18_KeylessRecordSkippedAlone ==
    /\ spc # "raised" => Len(log) = pos - 1
    /\ \A p \in 1..Len(log) :
           /\ ~HasKey(payload[p], sfn) <=> log[p] = "KeyError"
           /\ log[p] = "added" <=> (\E r \in RowsOfCall : r.pos = p)
           /\ HasKey(payload[p], sfn) =>
                  \/ log[p] = "db_error"
                  \/ \E r \in added \cup stored :
                         /\ r.table = TableOf(sfn)
                         /\ r.league_id = NewRow(sfn, payload[p]).league_id
                         /\ r.roster_id = NewRow(sfn, payload[p]).roster_id
                         /\ r.week = NewRow(sfn, payload[p]).week
    /\ (spc = "returned" /\ payload # <<>>) =>
           /\ Len(log) = Len(payload)
           /\ added \subseteq stored
           /\ sresult.count = Cardinality({p \in 1..Len(log) : log[p] = "added"
                                                               /\ sfn # "sync_user_leagues"})
    /\ spc = "raised" => pos > Len(payload)

\* a payload whose first record has no key and whose second has one: the call returned
\* with the second record's row committed
C18_Witness ==
    /\ spc = "returned"
    /\ Len(payload) = 2
    /\ ~HasKey(payload[1], sfn)
    /\ log = <<"KeyError", "added">>
    /\ \E r \in stored : r.run = Len(runs) /\ r.pos = 2


(***************************************************************************)
(* Claims about the team and the averaged columns of the reducer (checked  *)
(* under SpecReduce).                                                      *)
(***************************************************************************)
\* the weekly rows of player p in the reduced season
WeeklyRowsOf(p) == {r \in RowsOf(weekly, reduced.season) : r.player_id = p}

\* C19 as stated: for every player with weekly rows in the reduced season there is a
\* seasonal record whose team is one of the team codes of the player's weekly rows and
\* is not below any of them in string order.
C19_TeamIsGreatestCode ==
    reduced # NotReduced =>
        /\ reduced.raised = "none"
        /\ \A p \in ReducedPlayers :
              \E i \in 1..Len(reduced.records) :
                  /\ reduced.records[i].player_id = p
                  /\ \E r \in WeeklyRowsOf(p) : r.recent_team = reduced.records[i].team
                  /\ \A r \in WeeklyRowsOf(p) :
                         TeamRank(r.recent_team) <= TeamRank(reduced.records[i].team)

\* the mean of the non-NULL weekly values of column c of player p, None when there is none
MeanOf(p, c) ==
    LET vals == NonNull(WeeklyRowsOf(p), c)
    IN IF vals = <<>> THEN None
       ELSE Rat(SumVals(vals).n, SumVals(vals).d * Len(vals))

\* C20 as stated: for every player with weekly rows in the reduced season there is a
\* seasonal record whose target_share, air_yards_share and wopr are the mean of the
\* player's weekly values, and None when the player has no weekly value.
C20_SharesAreAverages ==
    reduced # NotReduced =>
        /\ reduced.raised = "none"
        /\ \A p \in ReducedPlayers :
              \E i \in 1..Len(reduced.records) :
                  /\ reduced.records[i].player_id = p
                  /\ \A c \in ShareCols : reduced.records[i][c] = MeanOf(p, c)


(***************************************************************************)
(* utils/helpers.py: the pure helper functions.  A Python string is a list *)
(* of words, None is the value None, what a call gives is the value it     *)
(* returned or the exception it raised.                                    *)
(***************************************************************************)
MaxLen == 4
MaxChunk == 3

Returned(v) == [k |-> "returned", v |-> v]
Raised(e) == [k |-> "raised", v |-> e]

Str(words) == [k |-> "str", s |-> words]

Truthy_NotNone(x) == x.k = "str"

\* Python's truth value of an Optional[str]: None and "" are false
Truthy(x) == x.k = "str" /\ x.s # <<>>

\* Python's  a or b
Or(a, b) == IF Truthy(a) THEN a ELSE b

\* format_player_name(first_name, last_name)
format_player_name(first_name, last_name) ==
    IF ~Truthy(first_name) /\ ~Truthy(last_name) THEN Str(<<"Unknown Player">>)
    ELSE IF ~Truthy(first_name) THEN Or(last_name, Str(<<"Unknown">>))
    ELSE IF ~Truthy(last_name) THEN first_name
    ELSE Str(first_name.s \o <<" ">> \o last_name.s)

Names == {None, Str(<<>>), Str(<<"Josh">>), Str(<<"Allen">>)}

\* a dict, by its keys
Dict(keys) == [k |-> "dict", keys |-> keys]

Fields == {"user_id", "username", "email"}

AllRequired_Any(d, required_fields) ==
    \E i \in 1..Len(required_fields) : required_fields[i] \in d.keys

\* the for loop of validate_sleeper_data: no required field is missing from data
AllRequired(d, required_fields) ==
    \A i \in 1..Len(required_fields) : required_fields[i] \in d.keys

\* validate_sleeper_data(data, required_fields)
validate_sleeper_data(d, required_fields) ==
    IF d.k = "none" \/ d.keys = {} THEN FALSE
    ELSE AllRequired(d, required_fields)

SleeperData == {None} \cup {Dict(ks) : ks \in SUBSET Fields}

RequiredFields == UNION {[1..n -> Fields] : n \in 0..2}

ChunkStarts_Short(n, size) == {i \in 0..(n - 2) : i % size = 0}

\* range(0, len(lst), chunk_size), for chunk_size >= 1
ChunkStarts(n, size) == {i \in 0..(n - 1) : i % size = 0}

\* chunk_list(lst, chunk_size), drained: the chunks in the order they are yielded;
\* range() raises ValueError for a step of 0
chunk_list(lst, size) ==
    IF size = 0 THEN Raised("ValueError")
    ELSE Returned([c \in 1..Cardinality(ChunkStarts(Len(lst), size)) |->
                      Slice(lst, (c - 1) * size, (c - 1) * size + size)])

Lists == UNION {[1..n -> {"a", "b"}] : n \in 0..MaxLen}

\* Python's  a // b  for b > 0
FloorDiv(a, b) == IF a >= 0 THEN a \div b ELSE -((b - 1 - a) \div b)

Max_Second(a, b) == b

Max(a, b) == IF a > b THEN a ELSE b

\* the week of get_current_nfl_week() when datetime.now() is the given day
get_current_nfl_week(today) ==
    IF today.month >= 9 \/ today.month <= 1
    THEN IF today.month = 9
         THEN Min(4, Max(1, FloorDiv(today.day - 5, 7) + 1))
         ELSE IF today.month >= 10
         THEN Min(18, (today.month - 9) * 4 + FloorDiv(today.day, 7) + 1)
         ELSE 18 + FloorDiv(today.day, 7)
    ELSE 1

\* the days of a month, 29 February among them
DaysIn(month) ==
    IF month = 2 THEN 29 ELSE IF month \in {4, 6, 9, 11} THEN 30 ELSE 31

Dates == {dt \in [month : 1..12, day : 1..31] : dt.day <= DaysIn(dt.month)}

\* the day after
Tomorrow(today) ==
    IF today.day < DaysIn(today.month) THEN [today EXCEPT !.day = @ + 1]
    ELSE [month |-> IF today.month = 12 THEN 1 ELSE today.month + 1, day |-> 1]

OverflowError == Val("OverflowError", 0, 1)
Inf == Val("inf", 1, 1)
BigInt == Val("bigint", 1, 1)
List == Val("list", 0, 1)

\* float(s) for the strings of the harness: a decimal numeral, "inf", "nan", an
\* exponent beyond the range of a float (which gives inf), or no numeral at all
ParseFloat(s) ==
    IF s = <<"123">> THEN Num(123)
    ELSE IF s = <<"123.45">> THEN Rat(12345, 100)
    ELSE IF s = <<"-7.5">> THEN Rat(-15, 2)
    ELSE IF s \in {<<"inf">>, <<"1e400">>} THEN Inf
    ELSE IF s = <<"nan">> THEN NaN
    ELSE ValueError

\* float(value): a float, or the exception it raises (TypeError for None and a list,
\* ValueError for a string that is no numeral, OverflowError for an int too large)
PyFloat(value) ==
    IF value.k \in {"num", "inf", "nan"} THEN value
    ELSE IF value.k = "str" THEN ParseFloat(value.s)
    ELSE IF value.k = "bigint" THEN OverflowError
    ELSE TypeError

\* int(f) of a float: truncation toward zero, ValueError for nan, OverflowError for inf
PyInt(f) ==
    IF f.k = "nan" THEN ValueError
    ELSE IF f.k = "inf" THEN OverflowError
    ELSE Num((IF f.n < 0 THEN -1 ELSE 1) * (Abs(f.n) \div f.d))

\* except (ValueError, TypeError)
ConvertCaught(e) == e.k \in {"ValueError", "TypeError"}

IsException(v) == v.k \in {"ValueError", "TypeError", "OverflowError"}

\* return x  inside the try block, or what the except clause makes of the exception
TryReturn(x) ==
    IF ~IsException(x) THEN Returned(x)
    ELSE IF ConvertCaught(x) THEN Returned(None)
    ELSE Raised(x.k)

\* safe_int_convert(value)
safe_int_convert(value) ==
    IF value.k = "none" THEN Returned(None)
    ELSE IF IsException(PyFloat(value)) THEN TryReturn(PyFloat(value))
    ELSE TryReturn(PyInt(PyFloat(value)))

\* safe_float_convert(value)
safe_float_convert(value) ==
    IF value.k = "none" THEN Returned(None)
    ELSE TryReturn(PyFloat(value))

ConvertValues ==
    {None, List, Num(123), Num(-7), Rat(1237, 10), Rat(-15, 2), NaN, Inf, BigInt}
    \cup {Str(s) : s \in {<<"123">>, <<"123.45">>, <<"-7.5">>, <<>>, <<"invalid">>,
                          <<"inf">>, <<"1e400">>, <<"nan">>}}

\* the default PPR scoring of calculate_fantasy_points
DefaultScoring ==
    [pass_yd |-> Rat(4, 100), pass_td |-> Num(4), pass_int |-> Num(-2),
     rush_yd |-> Rat(1, 10), rush_td |-> Num(6), rec |-> Num(1), rec_yd |-> Rat(1, 10),
     rec_td |-> Num(6), fgm |-> Num(3), xpm |-> Num(1), def_td |-> Num(6),
     def_int |-> Num(2), def_fum_rec |-> Num(2), def_sack |-> Num(1),
     def_safety |-> Num(2)]

Scoring(w) == [k |-> "dict", w |-> w]

Weights_AlwaysDefault(scoring_settings) == DefaultScoring

\* if not scoring_settings: the default weights for None and for an empty dict
Weights(scoring_settings) ==
    IF scoring_settings.k = "none" \/ DOMAIN scoring_settings.w = {}
    THEN DefaultScoring
    ELSE scoring_settings.w

MulVal(a, b) == Rat(a.n * b.n, a.d * b.d)

\* round(x, 2): the nearest hundredth, a tie going to the even one
Round2(x) ==
    LET q == FloorDiv(100 * x.n, x.d)
        r == 100 * x.n - q * x.d
    IN IF 2 * r < x.d THEN Rat(q, 100)
       ELSE IF 2 * r > x.d THEN Rat(q + 1, 100)
       ELSE Rat(IF q % 2 = 0 THEN q ELSE q + 1, 100)

RECURSIVE Points(_, _, _)
\* the for loop over stats.items(): points += float(value) * scoring_settings[stat]
Points(keys, stats, weights) ==
    IF keys = <<>> THEN Num(0)
    ELSE LET stat == Head(keys)
             rest == Points(Tail(keys), stats, weights)
         IN IF stat \in DOMAIN weights /\ stats[stat].k # "none"
            THEN AddVal(MulVal(PyFloat(stats[stat]), weights[stat]), rest)
            ELSE rest

\* calculate_fantasy_points(stats, scoring_settings)
calculate_fantasy_points(stats, scoring_settings) ==
    Round2(Points(SetToSeq(DOMAIN stats), stats, Weights(scoring_settings)))

StatKeys == {"pass_yd", "pass_td", "pass_int", "bonus"}
StatValues == {None, Num(0), Num(3), Rat(7, 10)}

\* the stats of test_calculate_fantasy_points
TestStats == [pass_yd |-> Num(300), pass_td |-> Num(2), rush_yd |-> Num(50),
              rec |-> Num(5), rec_yd |-> Num(80)]

StatDicts == UNION {[ks -> StatValues] : ks \in SUBSET StatKeys} \cup {TestStats}

\* league settings that weigh a stat the defaults do not, and not every default stat
CustomScoring == Scoring([pass_yd |-> Rat(6, 100), bonus |-> Rat(3, 2)])

ScoringSettings == {None, Scoring(<<>>), CustomScoring}

HelperInputs(fn) ==
    IF fn = "format_player_name"
    THEN {[first_name |-> f, last_name |-> l] : f \in Names, l \in Names}
    ELSE IF fn = "calculate_fantasy_points"
    THEN {[stats |-> st, scoring_settings |-> sc] : st \in StatDicts, sc \in ScoringSettings}
    ELSE IF fn = "get_current_nfl_week"
    THEN {[now |-> dt] : dt \in Dates}
    ELSE IF fn = "validate_sleeper_data"
    THEN {[data |-> dd, required_fields |-> rf] : dd \in SleeperData, rf \in RequiredFields}
    ELSE IF fn \in {"safe_int_convert", "safe_float_convert"}
    THEN {[value |-> v] : v \in ConvertValues}
    ELSE {[lst |-> l, size |-> c] : l \in Lists, c \in 0..MaxChunk}

HelperFns == {"format_player_name", "calculate_fantasy_points", "get_current_nfl_week",
              "validate_sleeper_data", "safe_int_convert", "safe_float_convert",
              "chunk_list"}

\* one action per helper: the call with the arguments of the harness
FormatPlayerName ==
    /\ hfn = "format_player_name"
    /\ hout = NotCalled
    /\ hout' = Returned(format_player_name(hin.first_name, hin.last_name))
    /\ UNCHANGED <<hfn, hin, row, result, reduced, loaderVars, otherVars>>

CalculateFantasyPoints ==
    /\ hfn = "calculate_fantasy_points"
    /\ hout = NotCalled
    /\ hout' = Returned(calculate_fantasy_points(hin.stats, hin.scoring_settings))
    /\ UNCHANGED <<hfn, hin, row, result, reduced, loaderVars, otherVars>>

GetCurrentNflWeek ==
    /\ hfn = "get_current_nfl_week"
    /\ hout = NotCalled
    /\ hout' = Returned(get_current_nfl_week(hin.now))
    /\ UNCHANGED <<hfn, hin, row, result, reduced, loaderVars, otherVars>>

ValidateSleeperData ==
    /\ hfn = "validate_sleeper_data"
    /\ hout = NotCalled
    /\ hout' = Returned(validate_sleeper_data(hin.data, hin.required_fields))
    /\ UNCHANGED <<hfn, hin, row, result, reduced, loaderVars, otherVars>>

SafeIntConvert ==
    /\ hfn = "safe_int_convert"
    /\ hout = NotCalled
    /\ hout' = safe_int_convert(hin.value)
    /\ UNCHANGED <<hfn, hin, row, result, reduced, loaderVars, otherVars>>

SafeFloatConvert ==
    /\ hfn = "safe_float_convert"
    /\ hout = NotCalled
    /\ hout' = safe_float_convert(hin.value)
    /\ UNCHANGED <<hfn, hin, row, result, reduced, loaderVars, otherVars>>

ChunkList ==
    /\ hfn = "chunk_list"
    /\ hout = NotCalled
    /\ hout' = chunk_list(hin.lst, hin.size)
    /\ UNCHANGED <<hfn, hin, row, result, reduced, loaderVars, otherVars>>

InitHelpers ==
    /\ row = ScenarioRow
    /\ result = NotRun
    /\ reduced = NotReduced
    /\ seasonal = {}
    /\ weekly = {}
    /\ start = [seasonal |-> {}, weekly |-> {}]
    /\ LoaderIdle
    /\ BatchIdle
    /\ ServiceIdle
    /\ hfn \in HelperFns
    /\ hin \in HelperInputs(hfn)
    /\ hout = NotCalled

NextHelpers ==
    \/ FormatPlayerName
    \/ CalculateFantasyPoints
    \/ GetCurrentNflWeek
    \/ ValidateSleeperData
    \/ SafeIntConvert
    \/ SafeFloatConvert
    \/ ChunkList

SpecHelpers == InitHelpers /\ [][NextHelpers]_vars


(***************************************************************************)
(* Claims about the helpers (checked under SpecHelpers).                   *)
(***************************************************************************)
Called(fn) == hfn = fn /\ hout.k # "notcalled"

\* the stats that count: their key is in the settings in force and their value is not None
Scored(stats, weights) ==
    {st \in DOMAIN stats \cap DOMAIN weights : stats[st].k # "none"}

RECURSIVE Total(_, _, _)
\* the sum over the set sts of value * weight
Total(sts, stats, weights) ==
    IF sts = {} THEN Num(0)
    ELSE LET st == CHOOSE x \in sts : TRUE
         IN AddVal(MulVal(stats[st], weights[st]), Total(sts \ {st}, stats, weights))

\* a is within half a hundredth of b, and a is a whole number of hundredths
NearestHundredth(a, b) ==
    /\ 100 % a.d = 0
    /\ 2 * Abs(100 * (a.n * b.d - b.n * a.d)) <= a.d * b.d

\* C21: calculate_fantasy_points returns the sum of value * weight over the stats whose
\* key is in the scoring settings and whose value is not None, rounded to two decimals;
\* the settings are the default PPR weights when None or an empty dict is given, and
\* the stats of the repository's test give 38.0.
C21_PointsAreWeightedSum ==
    Called("calculate_fantasy_points") =>
        LET given == hin.scoring_settings
            weights == IF given.k = "none" \/ given = Scoring(<<>>)
                       THEN DefaultScoring ELSE given.w
            exact == Total(Scored(hin.stats, weights), hin.stats, weights)
        IN /\ hout.k = "returned"
           /\ NearestHundredth(hout.v, exact)
           /\ (hin.stats = TestStats /\ given.k = "none") => hout.v = Num(38)

\* custom settings, a stat they do not weigh, one they weigh that the defaults do not,
\* a None value and a sum that needs rounding: 0.7 * 0.06 + 3 * 1.5 = 4.542 gives 4.54
C21_Witness ==
    /\ Called("calculate_fantasy_points")
    /\ hin.scoring_settings = CustomScoring
    /\ hin.stats = [pass_yd |-> Rat(7, 10), pass_td |-> Num(3), pass_int |-> None,
                    bonus |-> Num(3)]
    /\ hout.v = Rat(454, 100)

\* the values float() makes a number of, and those int(float()) makes one of
FloatConvertible(value) == PyFloat(value).k \in {"num", "inf", "nan"}
IntConvertible(value) == PyFloat(value).k = "num"

\* C22 as stated: safe_int_convert and safe_float_convert never raise: they return None
\* for None and for a value that cannot be converted, the converted number otherwise
\* ("123" gives 123, 123.7 gives 123, "" and "invalid" give None).
C22_ConvertNeverRaises ==
    /\ Called("safe_int_convert") =>
          /\ hout.k = "returned"
          /\ IntConvertible(hin.value) <=> hout.v.k = "num"
          /\ ~IntConvertible(hin.value) => hout.v = None
          /\ hin.value \in {Str(<<"123">>), Rat(1237, 10)} => hout.v = Num(123)
    /\ Called("safe_float_convert") =>
          /\ hout.k = "returned"
          /\ ~FloatConvertible(hin.value) => hout.v = None
          /\ FloatConvertible(hin.value) => hout.v = PyFloat(hin.value)

\* C23: validate_sleeper_data returns True exactly when the data is a non-empty mapping
\* that has every required field as a key; None, an empty mapping and a missing
\* required field give False.
C23_ValidExactlyWhenAllFieldsPresent ==
    Called("validate_sleeper_data") =>
        /\ hout.k = "returned"
        /\ hout.v = /\ hin.data.k = "dict"
                    /\ hin.data.keys # {}
                    /\ {hin.required_fields[i] : i \in 1..Len(hin.required_fields)}
                           \subseteq hin.data.keys

\* data with two of the fields: True when both are required, and in another call False
\* when the third is
C23_Witness ==
    /\ Called("validate_sleeper_data")
    /\ hin.data = Dict({"user_id", "username"})
    /\ \/ hin.required_fields = <<"user_id", "username">> /\ hout.v = TRUE
       \/ hin.required_fields = <<"user_id", "email">> /\ hout.v = FALSE

Missing(name) == name.k = "none" \/ name.s = <<>>

\* C24: format_player_name returns "Unknown Player" when both names are None or empty,
\* the one present name when exactly one is, and first, a space, last when both are
\* present.
C24_NameFormatted ==
    Called("format_player_name") =>
        LET first == hin.first_name
            last == hin.last_name
        IN /\ hout.k = "returned"
           /\ (Missing(first) /\ Missing(last)) => hout.v = Str(<<"Unknown Player">>)
           /\ (Missing(first) /\ ~Missing(last)) => hout.v = last
           /\ (~Missing(first) /\ Missing(last)) => hout.v = first
           /\ (~Missing(first) /\ ~Missing(last)) =>
                  hout.v = Str(first.s \o <<" ">> \o last.s)

\* an empty first name with a present last name gives the last name alone
C24_Witness ==
    /\ Called("format_player_name")
    /\ hin.first_name = Str(<<>>)
    /\ hin.last_name = Str(<<"Allen">>)
    /\ hout.v = Str(<<"Allen">>)

RECURSIVE Concat(_)
Concat(chunks) == IF chunks = <<>> THEN <<>> ELSE Head(chunks) \o Concat(Tail(chunks))

\* C29: for a chunk_size of at least 1, the chunks of chunk_list put together in order
\* are the list, every chunk but the last has chunk_size elements, the last has between
\* 1 and chunk_size, and an empty list has no chunk.
C29_ChunksPartitionTheList ==
    (Called("chunk_list") /\ hin.size >= 1) =>
        /\ hout.k = "returned"
        /\ Concat(hout.v) = hin.lst
        /\ \A c \in 1..Len(hout.v) :
               /\ c < Len(hout.v) => Len(hout.v[c]) = hin.size
               /\ Len(hout.v[c]) \in 1..hin.size
        /\ hin.lst = <<>> <=> hout.v = <<>>

\* four elements in chunks of three: one full chunk and a last chunk of one
C29_Witness ==
    /\ Called("chunk_list")
    /\ hin.lst = <<"a", "b", "b", "a">>
    /\ hin.size = 3
    /\ hout.v = << <<"a", "b", "b">>, <<"a">> >>

\* the days from 1 September to 30 January, each followed by a day of the same season
InSeason(today) == today.month >= 9 \/ (today.month = 1 /\ today.day < 31)

\* C30: get_current_nfl_week returns an integer from 1 to 22: 1 from February to
\* August, 1 to 4 in September, at most 18 from October to December, 18 to 22 in
\* January, and from 1 September to 31 January the week of a day is never above the
\* week of the day after.
C30_WeekInRangeAndMonotone ==
    Called("get_current_nfl_week") =>
        LET today == hin.now
            week == hout.v
        IN /\ hout.k = "returned"
           /\ week \in 1..22
           /\ today.month \in 2..8 => week = 1
           /\ today.month = 9 => week \in 1..4
           /\ today.month \in 10..12 => week <= 18
           /\ today.month = 1 => week \in 18..22
           /\ InSeason(today) => week <= get_current_nfl_week(Tomorrow(today))

\* 31 December is in week 17, the day before a January day of week 18
C30_Witness ==
    /\ Called("get_current_nfl_week")
    /\ hin.now = [month |-> 12, day |-> 31]
    /\ hout.v = 17
    /\ get_current_nfl_week(Tomorrow(hin.now)) = 18


(***************************************************************************)
(* Further claims about load_seasonal_stats and load_weekly_stats (checked *)
(* under Spec).                                                            *)
(***************************************************************************)
\* what leaves a season without a new row: a failure the inner handler catches, an
\* empty DataFrame, an empty list of records
LeavesNoRow == SeasonFailures \cup {"empty", "no_records"}

DeleteCommitted == \E i \in 1..Len(trace) : trace[i].ev = "commit_delete"

SomeSeasonLeftEmpty == \E i \in 1..Len(trace) : trace[i].ev \in LeavesNoRow

\* the statement as the specification has it: a forced reload in which the fetch or the
\* insert of a season failed or returned no data does not raise
C25_Original == (force_reload /\ SomeSeasonLeftEmpty) => pc # "raised"

\* C25: in a run with force_reload = true, a requested season whose fetch, reduction,
\* conversion, insert or commit failed, or that had no data, comes after the committed
\* delete and holds no row at all from then on; no row stored before the run is left in
\* any requested season; the failure itself is handled and the run goes on to the next
\* season, so that the run raises only when the existence count of a later season fails.
C25_ForceReloadFailureLeavesSeasonEmpty ==
    (force_reload /\ SomeSeasonLeftEmpty) =>
        /\ DeleteCommitted
        /\ \A s \in Requested : \A r \in RowsOf(Table, s) : r.created = "during"
        /\ \A i \in 1..Len(trace) :
               trace[i].ev \in LeavesNoRow =>
                   /\ RowsOf(Table, trace[i].season) = {}
                   /\ ~(pc = "raised" /\ i = Len(trace))
        /\ pc = "raised" => trace[Len(trace)].ev = "count_failed"

\* a forced reload of two seasons that held rows returned: the fetch of the first failed
\* and left it empty, the second was replaced
C25_Witness ==
    /\ force_reload /\ pc = "done" /\ Len(seasons) = 2
    /\ \A s \in Requested : RowsOf(StartTable, s) # {}
    /\ Did("fetch_failed", seasons[1])
    /\ RowsOf(Table, seasons[1]) = {}
    /\ Did("commit", seasons[2])
    /\ RowsOf(Table, seasons[2]) # {}

\* the rows a run has written for season s
NewRows(s) == RowsDuring(RowsOf(Table, s))

\* C26: at every point of a run of load_seasonal_stats or load_weekly_stats, a requested
\* season holds either no row written by the run or, its commit done, one row for every
\* row of the DataFrame converted for it; a season committed earlier keeps these rows
\* whatever fails later, and a season whose insert or commit failed holds none.
C26_SeasonInsertAllOrNothing ==
    pc # "idle" =>
        \A s \in Requested :
            /\ NewRows(s) = {} \/ Did("commit", s)
            /\ Did("commit", s) =>
                   \E e \in Events(s) : e.ev = "fetch" /\ Cardinality(NewRows(s)) = e.n
            /\ (Did("insert_failed", s) \/ Did("commit_failed", s)) => NewRows(s) = {}

\* the first season was committed with its two rows, then the commit of the second
\* failed: the first keeps both rows and the second has none
C26_Witness ==
    /\ pc = "done" /\ Len(seasons) = 2
    /\ Did("commit", seasons[1])
    /\ Cardinality(NewRows(seasons[1])) = 2
    /\ \E e \in Events(seasons[2]) : e.ev = "fetch" /\ e.n = 2
    /\ Did("commit_failed", seasons[2])
    /\ NewRows(seasons[2]) = {}

\* the rows of table t outside the requested seasons
Unrequested(t) == {r \in t : r.season \notin Requested}

\* C27: throughout a run of load_seasonal_stats or load_weekly_stats, whatever
\* force_reload is and whatever fails, the stored rows of the seasons that are not in
\* the requested list are the rows stored when the run began, and the table of the
\* other loader is not touched.
C27_UnrequestedSeasonsUntouched ==
    pc # "idle" =>
        /\ Unrequested(Table) = Unrequested(StartTable)
        /\ loader = "seasonal" => weekly = start.weekly
        /\ loader = "weekly" => seasonal = start.seasonal

\* a forced reload of one season replaced its rows while the other season, not
\* requested, kept the rows it had
C27_Witness ==
    /\ force_reload /\ pc = "done" /\ Len(seasons) = 1
    /\ RowsOf(StartTable, seasons[1]) # {}
    /\ Did("commit", seasons[1])
    /\ Unrequested(Table) # {}
    /\ Unrequested(Table) = Unrequested(StartTable)


(***************************************************************************)
(* Re-running a sync and the uniqueness of its rows (checked under         *)
(* SpecSync).                                                              *)
(***************************************************************************)
\* two rows of one table under one (league_id, roster_id, week)
SameKey(r1, r2) ==
    /\ r1.table = r2.table
    /\ r1.league_id = r2.league_id
    /\ r1.roster_id = r2.roster_id
    /\ r1.week = r2.week

\* the running call has the arguments and the payload of the call before it, and that
\* call left a committed row for every record of the payload that has its key
IsRerun ==
    /\ Len(runs) >= 2
    /\ runs[Len(runs)] = runs[Len(runs) - 1]
    /\ \A p \in 1..Len(payload) :
           HasKey(payload[p], sfn) =>
               \E r \in stored : r.run < Len(runs) /\ SameKey(r, NewRow(sfn, payload[p]))

\* C28: a call of sync_league_rosters or sync_league_matchups that repeats the call
\* before it with the same upstream payload adds no row and returns 0, and after any
\* runs with any payloads the stored Roster rows have distinct (league_id, roster_id)
\* and the stored Matchup rows distinct (league_id, roster_id, week).
C28_RerunAddsNothingAndKeysUnique ==
    sfn # "sync_user_leagues" =>
        /\ (IsRerun /\ spc = "returned") =>
               /\ sresult.count = 0
               /\ \A r \in stored : r.run # Len(runs)
        /\ \A r1, r2 \in stored : SameKey(r1, r2) => r1 = r2

\* the first half alone: a repeated call adds nothing and returns 0
C28_RerunAddsNothing ==
    (sfn # "sync_user_leagues" /\ IsRerun) =>
        /\ added = {}
        /\ spc = "returned" => sresult.count = 0 /\ \A r \in stored : r.run # Len(runs)

\* a repeated call whose record has its key returned
C28_RerunReturned ==
    /\ sfn # "sync_user_leagues" /\ IsRerun /\ spc = "returned"
    /\ \E p \in 1..Len(payload) : HasKey(payload[p], sfn)

=============================================================================
